---- MODULE Spec2Model ----
(***************************************************************************)
(* A model of the capture / timeline / mix engine of meeting-transcriber.  *)
(*                                                                         *)
(*   SpecTimeline  backend/audio/timeline.py, reconstruct_desktop_timeline *)
(*                 run statement by statement on bounded inputs            *)
(*   SpecWin       backend/audio/windows_recorder.py, AudioRecorder: the   *)
(*                 controlling thread (start_recording, stop_recording,    *)
(*                 _mix_and_save, cleanup), the two PortAudio callback     *)
(*                 threads and the wall clock                              *)
(*   SpecGap, SpecAnyRate  the same function on frames with one gap, and   *)
(*                 on arguments with rates of 0                            *)
(*   SpecMix       backend/audio/processor.py, align_audio_lengths and     *)
(*                 mix_audio, sample by sample                             *)
(*   SpecWatchdog  the callback watchdog threads of AudioRecorder          *)
(*   SpecLevel     the level meter of the AudioRecorder callbacks          *)
(*   SpecProbe     the sample-rate negotiation of AudioRecorder            *)
(*   SpecSilence   reconstruct_desktop_timeline on frames seconds apart,   *)
(*                 for the chunks of _append_silence_chunked               *)
(*   SpecWatchdogFair  SpecWatchdog with the clock and every watchdog      *)
(*                 thread weakly fair                                      *)
(*   SpecPipeline  the stages of _mix_and_save (Windows) and of            *)
(*                 _process_and_save (macOS), by the length of each track  *)
(*   SpecDownmix   the conversion of a source to stereo, frame by frame    *)
(*   SpecChannel   _process_channel of the three recorders, on exact       *)
(*                 fractions                                               *)
(*   SpecSwiftStop  backend/audio/swift_audio_capture.py, stop_recording   *)
(*                 of SwiftAudioCapture, its reader thread and the helper  *)
(*                 process; SpecSwiftStopFair with the caller weakly fair  *)
(*   SpecReassembly  the reassembly of frames from the reads of the        *)
(*                 helper's stdout in _read_audio_data                     *)
(*   SpecMeetings  backend/meeting_manager.py, MeetingManager on one       *)
(*                 recordings directory                                    *)
(*                                                                         *)
(* Time is counted in ticks of 1/TicksPerSecond seconds.  Audio blocks are *)
(* not stored sample by sample: a chunk of the output is a record naming   *)
(* the frame it was cut from (src), the offset of its first sample in that *)
(* frame (from) and its length (len); src = 0 is a block of zeros.         *)
(***************************************************************************)
EXTENDS Integers, Sequences, FiniteSets, TLC

None == -1

(***************************************************************************)
(* Bounds of the model.                                                    *)
(***************************************************************************)
TicksPerSecond == 2
MaxTick == 4
MaxDesktopFrames == 3
MaxFrameLen == 2
MaxMicFrames == 2
\* the recorder: the last clock tick, callbacks per source and session,
\* start_recording() calls, and the longest configured preroll (in ticks)
MaxTime == 2
MaxCallbacks == 2
MaxStarts == 2
MaxPreroll == 2
\* the mixer: the longest track handed to align_audio_lengths, in samples
MaxAudioLen == 2
\* the watchdog: the seconds of a run that are followed
MaxWatchSeconds == 35
\* the level meter: the longest callback frame, in samples
MaxLevelFrame == 9

(***************************************************************************)
(* Program constants (backend/audio/constants.py).                         *)
(***************************************************************************)
MAX_SILENCE_CHUNK_SECONDS == 10
\* GAP_THRESHOLD_SECONDS = 0.1, kept as the fraction 1 / GapThresholdInverse
GapThresholdInverse == 10
MIC_BOOST_LINEAR == 2
\* in seconds
WATCHDOG_CHECK_INTERVAL == 5
WATCHDOG_STALL_THRESHOLD == 10
LEVEL_SUBSAMPLE_FACTOR == 8
DEFAULT_CHANNELS == 2

VARIABLES
    \* ---- reconstruct_desktop_timeline: arguments
    arg_desktop_frames,         \* list of <<timestamp, frame length in samples>>
    arg_mic_frames,             \* list of mic frames, each its length in bytes
    arg_mic_first_capture_time, \* a tick, or None
    mic_sample_rate, mic_channels,
    loopback_sample_rate, loopback_channels,
    \* ---- reconstruct_desktop_timeline: locals
    tl_pc,                      \* "call", "loop", "pad", "returned", "raised"
    frame_index,                \* the loop's position in desktop_frames
    reference_time,
    target_samples,
    output_chunks,
    current_sample_position,
    gap_count,
    total_gap_samples,
    skipped_frames,
    output,                     \* the returned array, as its list of chunks
    \* ---- AudioRecorder (windows_recorder.py): configuration
    preroll_seconds,            \* in ticks
    mixing_mode,                \* loopback_device_id >= 0
    \* ---- AudioRecorder: fields
    is_recording,
    recording_start_time,       \* a tick, or None
    mic_frames,                 \* list of in_data; a block is named by the
                                \* tick at which PortAudio delivered it
    desktop_frames,             \* list of <<current_time, in_data>>
    mic_frame_count,
    desktop_frame_count,
    mic_first_capture_time,
    lock,                       \* self.lock: "free", "mic" or "desktop"
    mic_stream,                 \* self.mic_stream: "none", "open", "closed"
    desktop_stream,
    orphan_streams,             \* sources with a stream that is still open in
                                \* PortAudio but no longer referenced
    pa,                         \* self.pa is not None
    final_output,               \* _final_output_path/_recording_duration: None,
                                \* or the tracks the saved mix was made from
    \* ---- threads
    now,                        \* time.time(), in ticks
    mic_cb,                     \* position of the mic callback thread
    desktop_cb,                 \* position of the desktop callback thread
    main_pc,                    \* position of the controlling thread
    call_result,                \* how its last call ended
    last_error,                 \* the exception that call raised
    mic_audio,                  \* _mix_and_save: local mic_audio
    desktop_audio,              \* _mix_and_save: local desktop_audio
    starts,                     \* start_recording() calls so far
    \* ---- history
    cb_log,                     \* the keep/drop decisions of this session's
                                \* callbacks
    \* ---- MacOSAudioRecorder (macos_recorder.py)
    is_running,
    mic_thread,                 \* "none", "starting", "streaming", "closing"
                                \* or "done"
    desktop_thread,             \* "none", "starting", "monitoring" or "done"
    mac_frame_count,            \* _record_microphone: frame_count
    mac_cb,                     \* position of the mic stream's callback
    level_lock,                 \* self.level_lock: "free" or "mic"
    desktop_capture,            \* "none" if there is no capture helper, else
                                \* "idle" or "capturing"
    audio_buffer,               \* desktop_capture.audio_buffer
    error_event,                \* self._error_event is set
    report,                     \* the result main() has printed
    \* ---- align_audio_lengths and mix_audio (processor.py), and their
    \* ---- inline copies in MacOSAudioRecorder._process_and_save
    mix_platform,               \* "windows" or "macos": which copy runs
    arg_audio1, arg_audio2,     \* the two tracks as they were passed in
    audio1, audio2,             \* the locals audio1 / audio2
    mixed,                      \* the returned mix, as int16 samples
    mix_pc,                     \* "align1", "align2", "mix" or "returned"
    \* ---- AudioRecorder: the callback watchdog
    last_callback_time,
    watchdog_running,
    watchdog_warning_shown,
    wd_pc,                      \* per watchdog thread (one per call of
                                \* start_recording): "none", "begin", "loop",
                                \* "sleep", "check", "warn" or "done"
    wd_wake,                    \* per watchdog thread: when its sleep ends
    join_deadline,              \* when callback_watchdog.join(timeout) ends
    warnings,                   \* stall warnings printed since the last
                                \* start_recording
    \* ---- AudioRecorder: the level meter
    in_data,                    \* the frame PortAudio hands to a callback,
                                \* as its int16 samples
    mic_level, desktop_level,   \* the float fields, times 32768
    levels_out,                 \* the levels lines main() has printed, each
                                \* value times 32768
    \* ---- AudioRecorder: sample-rate negotiation
    mic_device, loopback_device,    \* what PortAudio reports and accepts:
                                    \* [defaultSampleRate, opens]
    sample_rate,                \* the constructor's sample_rate argument
    mic_requested_higher_rate,
    rates_to_try,               \* _probe_loopback_sample_rate: rates_to_try
    rate_index,                 \* the position of its loop in rates_to_try
    trials,                     \* the rates its trial streams were opened at
    probe_failed,               \* the probe raised and __init__ fell back
    probe_pc,                   \* "init", "probe", "trial", "open_mic",
                                \* "open_desktop" or "done"
    probe_result,               \* "none", "started", "mic_open" or
                                \* "desktop_open"
    proc_pc,                    \* position in _mix_and_save /
                                \* _process_and_save run on their own
    mic_track, desktop_track,   \* their locals mic_audio and desktop_audio
    final_audio,                \* their local final_audio
    proc_log,                   \* the processing stages run so far
    proc_error,                 \* the exception raised, or "none"
    audio_data,                 \* the argument of a channel conversion, as
                                \* its list of frames (one sample per channel)
    source_channels,
    stereo,                     \* what the conversion returned, in
                                \* thousandths of a sample unit
    downmix_pc,                 \* "call" or "returned"
    channel_data,               \* the channel _process_channel works on: its
                                \* samples are num[i] / den
    centered,                   \* the channel after the DC removal
    numpy_warnings,             \* the RuntimeWarnings numpy has raised
    limited,                    \* the soft limiter was applied
    channel_pc,                 \* "dc", "normalize", "limit" or "returned"
    swift_pc,                   \* position in SwiftAudioCapture.stop_recording
    recording_event,            \* self._recording_event is set
    process,                    \* self.process: "Popen" or "None"
    helper,                     \* the helper process: "running" or "exited"
    stdout_thread,              \* _read_audio_data: "alive", "drain", "done"
    swift_result,               \* what the last stop_recording returned or
                                \* raised
    signals,                    \* what stop_recording has sent to the helper
    swift_calls,                \* the calls of stop_recording so far
    swift_buffer,               \* SwiftAudioCapture.audio_buffer
    stdout_bytes,               \* the bytes the helper has written to stdout
    read_pos,                   \* how many of them os.read has returned
    _partial_bytes,
    _partial_samples,
    swift_channels,             \* SwiftAudioCapture.channels
    meetings_json,              \* the list stored in meetings.json
    recordings_dir,             \* the audio files of the recordings directory
    mm_clock,                   \* datetime.now(), in half seconds
    listed                      \* what the last list_meetings() returned

tlVars == <<arg_desktop_frames, arg_mic_frames, arg_mic_first_capture_time,
            mic_sample_rate, mic_channels, loopback_sample_rate,
            loopback_channels, tl_pc, frame_index, reference_time,
            target_samples, output_chunks, current_sample_position,
            gap_count, total_gap_samples, skipped_frames, output>>

macThreadVars == <<mic_thread, desktop_thread, mac_frame_count, mac_cb,
                  level_lock>>

macCaptureVars == <<desktop_capture, audio_buffer>>

macVars == <<is_running, macThreadVars, macCaptureVars, error_event, report>>

mixVars == <<mix_platform, arg_audio1, arg_audio2, audio1, audio2, mixed,
             mix_pc>>

wdVars == <<last_callback_time, watchdog_running, watchdog_warning_shown,
            wd_pc, wd_wake, join_deadline, warnings>>

levelVars == <<in_data, mic_level, desktop_level, levels_out>>

\* The state of the parts that are modelled on their own.
probeVars == <<mic_device, loopback_device, sample_rate,
               mic_requested_higher_rate, rates_to_try, rate_index, trials,
               probe_failed, probe_pc, probe_result>>

procVars == <<proc_pc, mic_track, desktop_track, final_audio, proc_log,
              proc_error, audio_data, source_channels, stereo, downmix_pc,
              channel_data, centered, numpy_warnings, limited, channel_pc,
              swift_pc, recording_event, process, helper, stdout_thread,
              swift_result, signals, swift_calls, swift_buffer, stdout_bytes,
              read_pos, _partial_bytes, _partial_samples, swift_channels,
              meetings_json, recordings_dir, mm_clock, listed>>

\* MeetingManager and its directory
mmVars == <<meetings_json, recordings_dir, mm_clock, listed>>

\* SwiftAudioCapture.stop_recording and its reader thread
swiftStopVars == <<swift_pc, recording_event, process, helper, stdout_thread,
                   swift_result, signals, swift_calls>>

\* the reassembly of frames in _read_audio_data
reassemblyVars == <<stdout_bytes, read_pos, _partial_bytes, _partial_samples,
                    swift_channels>>

pureVars == <<mixVars, wdVars, levelVars, probeVars, procVars>>

\* What no step of the recorder changes: its configuration, and the state of
\* the other components.
cfgVars == <<preroll_seconds, mixing_mode, tlVars, macVars, pureVars>>

micBufVars == <<mic_frames, mic_frame_count, mic_first_capture_time>>

deskBufVars == <<desktop_frames, desktop_frame_count>>

streamVars == <<mic_stream, desktop_stream, orphan_streams, pa>>

cbVars == <<mic_cb, desktop_cb, lock>>

callVars == <<call_result, last_error>>

pipeVars == <<mic_audio, desktop_audio, final_output>>

\* What no step of reconstruct_desktop_timeline changes: its arguments, and
\* the state of the other components.
tlArgs == <<arg_desktop_frames, arg_mic_frames, arg_mic_first_capture_time,
            mic_sample_rate, mic_channels, loopback_sample_rate,
            loopback_channels, micBufVars, deskBufVars, streamVars, cbVars,
            callVars, pipeVars, preroll_seconds, mixing_mode, is_recording,
            recording_start_time, now, main_pc, starts, cb_log, macVars,
            pureVars>>

winVars == <<cfgVars, micBufVars, deskBufVars, streamVars, cbVars, callVars,
             pipeVars, is_recording, recording_start_time, now, main_pc,
             starts, cb_log>>

vars == <<tlVars, winVars>>

\* What no step of the macOS recorder changes.
macFrame == <<preroll_seconds, mixing_mode, tlVars, is_recording,
              mic_frame_count, desktop_frame_count, mic_first_capture_time,
              streamVars, cbVars, cb_log, pureVars>>

(***************************************************************************)
(* Helpers.                                                                *)
(***************************************************************************)
Min(a, b) == IF a < b THEN a ELSE b

Max(a, b) == IF a > b THEN a ELSE b

RECURSIVE SumSeq(_)
SumSeq(s) == IF s = <<>> THEN 0 ELSE Head(s) + SumSeq(Tail(s))

RECURSIVE ChunksLen(_)
ChunksLen(chunks) ==
    IF chunks = <<>> THEN 0 ELSE Head(chunks).len + ChunksLen(Tail(chunks))

SeqsUpTo(S, n) == UNION {[1..k -> S] : k \in 0..n}

Silence(n) == [src |-> 0, from |-> 0, len |-> n]

\* the silence appended as one block of num_samples zeros
_append_silence_Whole(chunks, num_samples, max_chunk_size) ==
    IF num_samples > 0 THEN Append(chunks, Silence(num_samples)) ELSE chunks

\* timeline.py:168-181.  np.zeros(chunk_size) blocks of at most max_chunk_size
\* are appended until num_samples zeros have been added.
RECURSIVE _append_silence_chunked(_, _, _)
_append_silence_chunked(chunks, num_samples, max_chunk_size) ==
    IF num_samples > 0
    THEN LET chunk_size == Min(num_samples, max_chunk_size)
         IN  _append_silence_chunked(Append(chunks, Silence(chunk_size)),
                                     num_samples - chunk_size, max_chunk_size)
    ELSE chunks

\* timeline.py:59-66.  target_samples = int(mic seconds * rate * channels),
\* the mic seconds taken from the real byte count of the mic frames.
TargetSamples(micFrames, mRate, mCh, lRate, lCh) ==
    LET mic_total_bytes   == SumSeq(micFrames)
        mic_total_samples == mic_total_bytes \div 2
    IN  (mic_total_samples * lRate * lCh) \div (mRate * mCh)

\* timeline.py:96.  int(time_offset * rate * channels) for time_offset >= 0.
TargetPosition(time_offset, lRate, lCh) ==
    (time_offset * lRate * lCh) \div TicksPerSecond

\* timeline.py:74
MaxSilenceChunk(lRate, lCh) == lRate * lCh * MAX_SILENCE_CHUNK_SECONDS

\* gap_duration >= GAP_THRESHOLD_SECONDS
IsReportableGap_Inclusive(gap_samples, lRate, lCh) ==
    gap_samples * GapThresholdInverse >= lRate * lCh

\* timeline.py:116-119.  gap_duration > GAP_THRESHOLD_SECONDS
IsReportableGap(gap_samples, lRate, lCh) ==
    gap_samples * GapThresholdInverse > lRate * lCh

(***************************************************************************)
(* reconstruct_desktop_timeline, timeline.py:15-165.                       *)
(***************************************************************************)
DesktopFrameSet == (0..MaxTick) \X (1..MaxFrameLen)

TlInit ==
    /\ arg_desktop_frames \in SeqsUpTo(DesktopFrameSet, MaxDesktopFrames)
    /\ arg_mic_frames \in SeqsUpTo({2, 4}, MaxMicFrames)
    /\ arg_mic_first_capture_time \in {None} \cup (0..2)
    /\ mic_sample_rate = 2
    /\ mic_channels = 1
    /\ loopback_sample_rate = 3
    /\ loopback_channels \in {1, 2}
    /\ tl_pc = "call"
    /\ frame_index = 1
    /\ reference_time = None
    /\ target_samples = 0
    /\ output_chunks = <<>>
    /\ current_sample_position = 0
    /\ gap_count = 0
    /\ total_gap_samples = 0
    /\ skipped_frames = 0
    /\ output = <<>>

\* The target length is computed before desktop_frames is looked at.
TlEnter_TargetFirst ==
    /\ tl_pc = "call"
    /\ IF mic_sample_rate * mic_channels = 0
       THEN /\ tl_pc' = "raised"
            /\ UNCHANGED <<output, reference_time, target_samples>>
       ELSE IF arg_desktop_frames = <<>>
       THEN /\ tl_pc' = "returned"
            /\ output' = <<>>
            /\ target_samples' =
                   TargetSamples(arg_mic_frames, mic_sample_rate, mic_channels,
                                 loopback_sample_rate, loopback_channels)
            /\ UNCHANGED reference_time
       ELSE /\ tl_pc' = "loop"
            /\ reference_time' =
                   IF arg_mic_first_capture_time = None
                   THEN arg_desktop_frames[1][1]
                   ELSE arg_mic_first_capture_time
            /\ target_samples' =
                   TargetSamples(arg_mic_frames, mic_sample_rate, mic_channels,
                                 loopback_sample_rate, loopback_channels)
            /\ UNCHANGED output
    /\ UNCHANGED <<tlArgs, frame_index,
                   output_chunks, current_sample_position, gap_count,
                   total_gap_samples, skipped_frames>>

\* timeline.py:49-83: the early return for no frames, the reference time, the
\* target length (the division of line 63 raises ZeroDivisionError for a
\* rate or channel count of 0) and the loop's initial state.
TlEnter ==
    /\ tl_pc = "call"
    /\ IF arg_desktop_frames = <<>>
       THEN /\ tl_pc' = "returned"
            /\ output' = <<>>
            /\ UNCHANGED <<reference_time, target_samples>>
       ELSE IF mic_sample_rate * mic_channels = 0
       THEN /\ tl_pc' = "raised"
            /\ UNCHANGED <<output, reference_time, target_samples>>
       ELSE /\ tl_pc' = "loop"
            /\ reference_time' =
                   IF arg_mic_first_capture_time = None
                   THEN arg_desktop_frames[1][1]
                   ELSE arg_mic_first_capture_time
            /\ target_samples' =
                   TargetSamples(arg_mic_frames, mic_sample_rate, mic_channels,
                                 loopback_sample_rate, loopback_channels)
            /\ UNCHANGED output
    /\ UNCHANGED <<tlArgs, frame_index,
                   output_chunks, current_sample_position, gap_count,
                   total_gap_samples, skipped_frames>>

\* the loop body with an overlapping frame appended from its first sample
TlLoopBody_Untrimmed ==
    /\ tl_pc = "loop"
    /\ frame_index <= Len(arg_desktop_frames)
    /\ LET timestamp    == arg_desktop_frames[frame_index][1]
           frame_len    == arg_desktop_frames[frame_index][2]
           time_offset  == timestamp - reference_time
           target0      == TargetPosition(time_offset, loopback_sample_rate,
                                          loopback_channels)
           overlap      == current_sample_position - target0
           overlapped   == target0 < current_sample_position
           \* lines 102-111: frame_samples and target_position after trimming
           trim_from    == 0
           trim_len     == frame_len - trim_from
           target_position == IF overlapped THEN current_sample_position
                              ELSE target0
           \* lines 113-125
           has_gap      == target_position > current_sample_position
           gap_samples  == target_position - current_sample_position
           chunks1      == IF has_gap
                           THEN _append_silence_chunked(output_chunks, gap_samples,
                                    MaxSilenceChunk(loopback_sample_rate,
                                                    loopback_channels))
                           ELSE output_chunks
           position1    == IF has_gap THEN target_position
                           ELSE current_sample_position
           \* lines 127-133
           remaining_space == target_samples - position1
           kept_len     == Min(trim_len, remaining_space)
       IN  IF time_offset < 0
           THEN \* lines 91-93
                /\ skipped_frames' = skipped_frames + 1
                /\ frame_index' = frame_index + 1
                /\ UNCHANGED <<tl_pc, output_chunks, current_sample_position,
                               gap_count, total_gap_samples>>
           ELSE IF overlapped /\ overlap >= frame_len
           THEN \* lines 104-107
                /\ skipped_frames' = skipped_frames + 1
                /\ frame_index' = frame_index + 1
                /\ UNCHANGED <<tl_pc, output_chunks, current_sample_position,
                               gap_count, total_gap_samples>>
           ELSE /\ gap_count' =
                       IF has_gap /\ IsReportableGap(gap_samples,
                                         loopback_sample_rate, loopback_channels)
                       THEN gap_count + 1 ELSE gap_count
                /\ total_gap_samples' =
                       IF has_gap /\ IsReportableGap(gap_samples,
                                         loopback_sample_rate, loopback_channels)
                       THEN total_gap_samples + gap_samples
                       ELSE total_gap_samples
                /\ IF remaining_space <= 0
                   THEN \* lines 129-130: break
                        /\ tl_pc' = "pad"
                        /\ output_chunks' = chunks1
                        /\ current_sample_position' = position1
                        /\ UNCHANGED frame_index
                   ELSE \* lines 132-137
                        /\ output_chunks' =
                               Append(chunks1, [src |-> frame_index,
                                                from |-> trim_from,
                                                len |-> kept_len])
                        /\ current_sample_position' = position1 + kept_len
                        /\ frame_index' = frame_index + 1
                        /\ UNCHANGED tl_pc
                /\ UNCHANGED skipped_frames
    /\ UNCHANGED <<tlArgs, reference_time,
                   target_samples, output>>

\* the loop body with the frames before the reference time left uncounted
TlLoopBody_EarlyUncounted ==
    /\ tl_pc = "loop"
    /\ frame_index <= Len(arg_desktop_frames)
    /\ LET timestamp    == arg_desktop_frames[frame_index][1]
           frame_len    == arg_desktop_frames[frame_index][2]
           time_offset  == timestamp - reference_time
           target0      == TargetPosition(time_offset, loopback_sample_rate,
                                          loopback_channels)
           overlap      == current_sample_position - target0
           overlapped   == target0 < current_sample_position
           \* lines 102-111: frame_samples and target_position after trimming
           trim_from    == IF overlapped THEN overlap ELSE 0
           trim_len     == frame_len - trim_from
           target_position == IF overlapped THEN current_sample_position
                              ELSE target0
           \* lines 113-125
           has_gap      == target_position > current_sample_position
           gap_samples  == target_position - current_sample_position
           chunks1      == IF has_gap
                           THEN _append_silence_chunked(output_chunks, gap_samples,
                                    MaxSilenceChunk(loopback_sample_rate,
                                                    loopback_channels))
                           ELSE output_chunks
           position1    == IF has_gap THEN target_position
                           ELSE current_sample_position
           \* lines 127-133
           remaining_space == target_samples - position1
           kept_len     == Min(trim_len, remaining_space)
       IN  IF time_offset < 0
           THEN \* lines 91-93
                /\ skipped_frames' = skipped_frames
                /\ frame_index' = frame_index + 1
                /\ UNCHANGED <<tl_pc, output_chunks, current_sample_position,
                               gap_count, total_gap_samples>>
           ELSE IF overlapped /\ overlap >= frame_len
           THEN \* lines 104-107
                /\ skipped_frames' = skipped_frames + 1
                /\ frame_index' = frame_index + 1
                /\ UNCHANGED <<tl_pc, output_chunks, current_sample_position,
                               gap_count, total_gap_samples>>
           ELSE /\ gap_count' =
                       IF has_gap /\ IsReportableGap(gap_samples,
                                         loopback_sample_rate, loopback_channels)
                       THEN gap_count + 1 ELSE gap_count
                /\ total_gap_samples' =
                       IF has_gap /\ IsReportableGap(gap_samples,
                                         loopback_sample_rate, loopback_channels)
                       THEN total_gap_samples + gap_samples
                       ELSE total_gap_samples
                /\ IF remaining_space <= 0
                   THEN \* lines 129-130: break
                        /\ tl_pc' = "pad"
                        /\ output_chunks' = chunks1
                        /\ current_sample_position' = position1
                        /\ UNCHANGED frame_index
                   ELSE \* lines 132-137
                        /\ output_chunks' =
                               Append(chunks1, [src |-> frame_index,
                                                from |-> trim_from,
                                                len |-> kept_len])
                        /\ current_sample_position' = position1 + kept_len
                        /\ frame_index' = frame_index + 1
                        /\ UNCHANGED tl_pc
                /\ UNCHANGED skipped_frames
    /\ UNCHANGED <<tlArgs, reference_time,
                   target_samples, output>>

\* the loop body with the position left where it was before the silence
TlLoopBody_GapNotCounted ==
    /\ tl_pc = "loop"
    /\ frame_index <= Len(arg_desktop_frames)
    /\ LET timestamp    == arg_desktop_frames[frame_index][1]
           frame_len    == arg_desktop_frames[frame_index][2]
           time_offset  == timestamp - reference_time
           target0      == TargetPosition(time_offset, loopback_sample_rate,
                                          loopback_channels)
           overlap      == current_sample_position - target0
           overlapped   == target0 < current_sample_position
           \* lines 102-111: frame_samples and target_position after trimming
           trim_from    == IF overlapped THEN overlap ELSE 0
           trim_len     == frame_len - trim_from
           target_position == IF overlapped THEN current_sample_position
                              ELSE target0
           \* lines 113-125
           has_gap      == target_position > current_sample_position
           gap_samples  == target_position - current_sample_position
           chunks1      == IF has_gap
                           THEN _append_silence_chunked(output_chunks, gap_samples,
                                    MaxSilenceChunk(loopback_sample_rate,
                                                    loopback_channels))
                           ELSE output_chunks
           position1    == current_sample_position
           \* lines 127-133
           remaining_space == target_samples - position1
           kept_len     == Min(trim_len, remaining_space)
       IN  IF time_offset < 0
           THEN \* lines 91-93
                /\ skipped_frames' = skipped_frames + 1
                /\ frame_index' = frame_index + 1
                /\ UNCHANGED <<tl_pc, output_chunks, current_sample_position,
                               gap_count, total_gap_samples>>
           ELSE IF overlapped /\ overlap >= frame_len
           THEN \* lines 104-107
                /\ skipped_frames' = skipped_frames + 1
                /\ frame_index' = frame_index + 1
                /\ UNCHANGED <<tl_pc, output_chunks, current_sample_position,
                               gap_count, total_gap_samples>>
           ELSE /\ gap_count' =
                       IF has_gap /\ IsReportableGap(gap_samples,
                                         loopback_sample_rate, loopback_channels)
                       THEN gap_count + 1 ELSE gap_count
                /\ total_gap_samples' =
                       IF has_gap /\ IsReportableGap(gap_samples,
                                         loopback_sample_rate, loopback_channels)
                       THEN total_gap_samples + gap_samples
                       ELSE total_gap_samples
                /\ IF remaining_space <= 0
                   THEN \* lines 129-130: break
                        /\ tl_pc' = "pad"
                        /\ output_chunks' = chunks1
                        /\ current_sample_position' = position1
                        /\ UNCHANGED frame_index
                   ELSE \* lines 132-137
                        /\ output_chunks' =
                               Append(chunks1, [src |-> frame_index,
                                                from |-> trim_from,
                                                len |-> kept_len])
                        /\ current_sample_position' = position1 + kept_len
                        /\ frame_index' = frame_index + 1
                        /\ UNCHANGED tl_pc
                /\ UNCHANGED skipped_frames
    /\ UNCHANGED <<tlArgs, reference_time,
                   target_samples, output>>

\* timeline.py:86-137: one iteration of the loop over desktop_frames.
TlLoopBody ==
    /\ tl_pc = "loop"
    /\ frame_index <= Len(arg_desktop_frames)
    /\ LET timestamp    == arg_desktop_frames[frame_index][1]
           frame_len    == arg_desktop_frames[frame_index][2]
           time_offset  == timestamp - reference_time
           target0      == TargetPosition(time_offset, loopback_sample_rate,
                                          loopback_channels)
           overlap      == current_sample_position - target0
           overlapped   == target0 < current_sample_position
           \* lines 102-111: frame_samples and target_position after trimming
           trim_from    == IF overlapped THEN overlap ELSE 0
           trim_len     == frame_len - trim_from
           target_position == IF overlapped THEN current_sample_position
                              ELSE target0
           \* lines 113-125
           has_gap      == target_position > current_sample_position
           gap_samples  == target_position - current_sample_position
           chunks1      == IF has_gap
                           THEN _append_silence_chunked(output_chunks, gap_samples,
                                    MaxSilenceChunk(loopback_sample_rate,
                                                    loopback_channels))
                           ELSE output_chunks
           position1    == IF has_gap THEN target_position
                           ELSE current_sample_position
           \* lines 127-133
           remaining_space == target_samples - position1
           kept_len     == Min(trim_len, remaining_space)
       IN  IF time_offset < 0
           THEN \* lines 91-93
                /\ skipped_frames' = skipped_frames + 1
                /\ frame_index' = frame_index + 1
                /\ UNCHANGED <<tl_pc, output_chunks, current_sample_position,
                               gap_count, total_gap_samples>>
           ELSE IF overlapped /\ overlap >= frame_len
           THEN \* lines 104-107
                /\ skipped_frames' = skipped_frames + 1
                /\ frame_index' = frame_index + 1
                /\ UNCHANGED <<tl_pc, output_chunks, current_sample_position,
                               gap_count, total_gap_samples>>
           ELSE /\ gap_count' =
                       IF has_gap /\ IsReportableGap(gap_samples,
                                         loopback_sample_rate, loopback_channels)
                       THEN gap_count + 1 ELSE gap_count
                /\ total_gap_samples' =
                       IF has_gap /\ IsReportableGap(gap_samples,
                                         loopback_sample_rate, loopback_channels)
                       THEN total_gap_samples + gap_samples
                       ELSE total_gap_samples
                /\ IF remaining_space <= 0
                   THEN \* lines 129-130: break
                        /\ tl_pc' = "pad"
                        /\ output_chunks' = chunks1
                        /\ current_sample_position' = position1
                        /\ UNCHANGED frame_index
                   ELSE \* lines 132-137
                        /\ output_chunks' =
                               Append(chunks1, [src |-> frame_index,
                                                from |-> trim_from,
                                                len |-> kept_len])
                        /\ current_sample_position' = position1 + kept_len
                        /\ frame_index' = frame_index + 1
                        /\ UNCHANGED tl_pc
                /\ UNCHANGED skipped_frames
    /\ UNCHANGED <<tlArgs, reference_time,
                   target_samples, output>>

\* timeline.py:86: the for loop ends when the frames are exhausted.
TlLoopExit ==
    /\ tl_pc = "loop"
    /\ frame_index > Len(arg_desktop_frames)
    /\ tl_pc' = "pad"
    /\ UNCHANGED <<tlArgs, frame_index,
                   reference_time, target_samples, output_chunks,
                   current_sample_position, gap_count, total_gap_samples,
                   skipped_frames, output>>

\* timeline.py:139-165: the final padding, the concatenation and the return.
TlPadAndReturn ==
    /\ tl_pc = "pad"
    /\ LET max_silence_chunk == MaxSilenceChunk(loopback_sample_rate,
                                                loopback_channels)
           padded == IF current_sample_position < target_samples
                     THEN _append_silence_chunked(output_chunks,
                              target_samples - current_sample_position,
                              max_silence_chunk)
                     ELSE output_chunks
       IN  /\ output_chunks' = padded
           /\ output' = IF padded # <<>> THEN padded
                        ELSE _append_silence_chunked(<<>>, target_samples,
                                                     max_silence_chunk)
    /\ tl_pc' = "returned"
    /\ UNCHANGED <<tlArgs, frame_index,
                   reference_time, target_samples, current_sample_position,
                   gap_count, total_gap_samples, skipped_frames>>

TlNext == TlEnter \/ TlLoopBody \/ TlLoopExit \/ TlPadAndReturn

(***************************************************************************)
(* How reconstruct_desktop_timeline sees its frames: where each frame      *)
(* falls on the sample grid of the output, and the space between a frame   *)
(* and the next.                                                           *)
(***************************************************************************)
\* timeline.py:53-57
ReferenceTime ==
    IF arg_mic_first_capture_time = None THEN arg_desktop_frames[1][1]
    ELSE arg_mic_first_capture_time

\* timeline.py:74-75, 96: loopback_sample_rate * loopback_channels
SamplesPerSecond == loopback_sample_rate * loopback_channels

\* timeline.py:89, 96: target_position of frame i
FramePosition(i) ==
    TargetPosition(arg_desktop_frames[i][1] - ReferenceTime,
                   loopback_sample_rate, loopback_channels)

\* timeline.py:136-137: current_sample_position after frame i was appended
\* whole at its target position
FrameEnd(i) == FramePosition(i) + arg_desktop_frames[i][2]

\* timeline.py:114-115: gap_samples in front of frame i + 1
GapSamplesAfter(i) == FramePosition(i + 1) - FrameEnd(i)

\* The time from the end of frame i (its timestamp plus the duration of its
\* samples) to the timestamp of frame i + 1, in units of
\* 1 / (TicksPerSecond * SamplesPerSecond) seconds.
GapTimeAfter(i) ==
    (arg_desktop_frames[i + 1][1] - arg_desktop_frames[i][1]) * SamplesPerSecond
        - arg_desktop_frames[i][2] * TicksPerSecond

\* The frames start at the reference time, lie within the mic-derived
\* target length, and follow one another without space except for one gap
\* after frame k.
OneInjectedGap(k) ==
    LET n == Len(arg_desktop_frames)
    IN  /\ k \in 1..(n - 1)
        /\ \A i \in 1..n : arg_desktop_frames[i][1] >= ReferenceTime
        /\ FramePosition(1) = 0
        /\ \A i \in 1..(n - 1) : i # k => GapSamplesAfter(i) = 0
        /\ GapSamplesAfter(k) > 0
        /\ FrameEnd(n) <= TargetSamples(arg_mic_frames, mic_sample_rate,
                                        mic_channels, loopback_sample_rate,
                                        loopback_channels)

\* timeline.py:145: np.concatenate(output_chunks), each sample named by the
\* frame and offset it was copied from (<<0, 0>> for a zero)
RECURSIVE Concatenate(_)
Concatenate(chunks) ==
    IF chunks = <<>> THEN <<>>
    ELSE LET c == Head(chunks)
         IN  [j \in 1..c.len |->
                 IF c.src = 0 THEN <<0, 0>> ELSE <<c.src, c.from + j>>]
             \o Concatenate(Tail(chunks))

(***************************************************************************)
(* AudioRecorder, backend/audio/windows_recorder.py.                       *)
(***************************************************************************)
CbIdle == [at |-> "idle", from |-> "none"]

\* windows_recorder.py:58-59, macos_recorder.py:211-212: no output has been
\* published.
NoOutput == [mic |-> <<>>, desktop |-> <<>>]

NoReport == [printed |-> FALSE, success |-> FALSE, outputPath |-> "none"]

\* macos_recorder.py:144-212: the fields of MacOSAudioRecorder as __init__
\* leaves them; `capture` is "none" when neither capture helper is available.
MacFields(capture) ==
    /\ is_running = FALSE
    /\ mic_thread = "none"
    /\ desktop_thread = "none"
    /\ mac_frame_count = 0
    /\ mac_cb = "idle"
    /\ level_lock = "free"
    /\ desktop_capture = capture
    /\ audio_buffer = <<>>
    /\ error_event = FALSE
    /\ report = NoReport

\* windows_recorder.py:129-204: the object as __init__ leaves it.
WinFields(preroll, mixing) ==
    /\ preroll_seconds = preroll
    /\ mixing_mode = mixing
    /\ is_recording = FALSE
    /\ recording_start_time = None
    /\ mic_frames = <<>>
    /\ desktop_frames = <<>>
    /\ mic_frame_count = 0
    /\ desktop_frame_count = 0
    /\ mic_first_capture_time = None
    /\ lock = "free"
    /\ mic_stream = "none"
    /\ desktop_stream = "none"
    /\ orphan_streams = {}
    /\ pa = TRUE
    /\ final_output = NoOutput
    /\ now = 0
    /\ mic_cb = CbIdle
    /\ desktop_cb = CbIdle
    /\ main_pc = "idle"
    /\ call_result = "none"
    /\ last_error = "none"
    /\ mic_audio = <<>>
    /\ desktop_audio = <<>>
    /\ starts = 0
    /\ cb_log = {}

\* The mixer is not running.
MixParked ==
    /\ mix_platform = "windows"
    /\ arg_audio1 = <<>>
    /\ arg_audio2 = <<>>
    /\ audio1 = <<>>
    /\ audio2 = <<>>
    /\ mixed = <<>>
    /\ mix_pc = "returned"

\* windows_recorder.py:194-198: the watchdog fields as __init__ leaves them.
WdFields ==
    /\ last_callback_time = 0
    /\ watchdog_running = FALSE
    /\ watchdog_warning_shown = FALSE
    /\ wd_pc = [i \in 1..MaxStarts |-> "none"]
    /\ wd_wake = [i \in 1..MaxStarts |-> 0]
    /\ join_deadline = 0
    /\ warnings = 0

\* windows_recorder.py:187-188: the level fields as __init__ leaves them;
\* no frame is pending and nothing was printed.
LevelFields ==
    /\ in_data = <<>>
    /\ mic_level = 0
    /\ desktop_level = 0
    /\ levels_out = <<>>

\* No negotiation is running.
ProbeParked ==
    /\ mic_device = [defaultSampleRate |-> 48000, opens |-> {48000}]
    /\ loopback_device = [defaultSampleRate |-> 48000, opens |-> {48000}]
    /\ sample_rate = 48000
    /\ mic_requested_higher_rate = FALSE
    /\ rates_to_try = <<>>
    /\ rate_index = 1
    /\ trials = <<>>
    /\ probe_failed = FALSE
    /\ probe_pc = "done"
    /\ probe_result = "none"

\* A track is known by its length (what len() returns) and by the
\* processing it went through.
NoTrack == [len |-> 0, ops |-> <<>>]

\* No SwiftAudioCapture is looked at on its own.
SwiftStopParked ==
    /\ swift_pc = "idle"
    /\ recording_event = FALSE
    /\ process = "None"
    /\ helper = "exited"
    /\ stdout_thread = "done"
    /\ swift_result = "none"
    /\ signals = <<>>
    /\ swift_calls = 0

ReassemblyParked ==
    /\ stdout_bytes = <<>>
    /\ read_pos = 0
    /\ _partial_bytes = <<>>
    /\ _partial_samples = <<>>
    /\ swift_channels = 2

SwiftParked == SwiftStopParked /\ ReassemblyParked /\ swift_buffer = <<>>

\* No MeetingManager is looked at.
MmParked ==
    /\ meetings_json = <<>>
    /\ recordings_dir = {}
    /\ mm_clock = 0
    /\ listed = <<>>

\* A channel of no samples.
NoChannel == [num |-> <<>>, den |-> 1]

\* No channel is being processed on its own.
ChannelParked ==
    /\ channel_data = NoChannel
    /\ centered = NoChannel
    /\ numpy_warnings = {}
    /\ limited = FALSE
    /\ channel_pc = "returned"

\* No channel conversion is running on its own.
DownmixParked ==
    /\ audio_data = <<>>
    /\ source_channels = 2
    /\ stereo = <<>>
    /\ downmix_pc = "returned"

\* No post-processing is running on its own.
ProcParked ==
    /\ proc_pc = "returned"
    /\ mic_track = NoTrack
    /\ desktop_track = NoTrack
    /\ final_audio = NoTrack
    /\ proc_log = <<>>
    /\ proc_error = "none"
    /\ DownmixParked
    /\ ChannelParked
    /\ SwiftParked
    /\ MmParked

PureParked ==
    MixParked /\ WdFields /\ LevelFields /\ ProbeParked /\ ProcParked

WinConstructed(preroll, mixing) ==
    WinFields(preroll, mixing) /\ MacFields("none") /\ PureParked

\* macos_recorder.py:122-218: the recorder as __init__ leaves it.
MacConstructed(preroll, capture) ==
    WinFields(preroll, FALSE) /\ MacFields(capture) /\ PureParked

\* The timeline function is not running.
TlParked ==
    /\ arg_desktop_frames = <<>>
    /\ arg_mic_frames = <<>>
    /\ arg_mic_first_capture_time = None
    /\ mic_sample_rate = 2
    /\ mic_channels = 1
    /\ loopback_sample_rate = 3
    /\ loopback_channels = 2
    /\ tl_pc = "returned"
    /\ frame_index = 1
    /\ reference_time = None
    /\ target_samples = 0
    /\ output_chunks = <<>>
    /\ current_sample_position = 0
    /\ gap_count = 0
    /\ total_gap_samples = 0
    /\ skipped_frames = 0
    /\ output = <<>>

WinInit ==
    /\ TlParked
    /\ \E preroll \in {0, MaxPreroll}, mixing \in BOOLEAN :
          WinConstructed(preroll, mixing)

TimelineInit == TlInit /\ WinConstructed(0, FALSE)

SpecTimeline == TimelineInit /\ [][TlNext]_vars

\* Frames of 8 to 10 samples at 20 or 21 samples per second: a frame every
\* tick leaves no space, a space of a sample or two, or a space of ticks.
GapFrameSet == (0..MaxTick) \X {8, 9, 10}

GapInit ==
    /\ WinConstructed(0, FALSE)
    /\ arg_desktop_frames \in SeqsUpTo(GapFrameSet, MaxDesktopFrames)
    /\ arg_mic_frames = <<4, 4>>
    /\ arg_mic_first_capture_time \in {None, 0}
    /\ mic_sample_rate = 2
    /\ mic_channels = 1
    /\ loopback_sample_rate \in {20, 21}
    /\ loopback_channels = 1
    /\ tl_pc = "call"
    /\ frame_index = 1
    /\ reference_time = None
    /\ target_samples = 0
    /\ output_chunks = <<>>
    /\ current_sample_position = 0
    /\ gap_count = 0
    /\ total_gap_samples = 0
    /\ skipped_frames = 0
    /\ output = <<>>

SpecGap == GapInit /\ [][TlNext]_vars

\* Long recordings at one sample per second: desktop frames up to 25 s
\* apart and mic tracks of 12 to 40 s, so that gaps and the final padding
\* exceed MAX_SILENCE_CHUNK_SECONDS.
SilenceInit ==
    /\ WinConstructed(0, FALSE)
    /\ arg_desktop_frames
           \in SeqsUpTo({0, 12 * TicksPerSecond, 25 * TicksPerSecond}
                            \X (1..MaxFrameLen), 2)
    /\ arg_mic_frames \in SeqsUpTo({24, 40}, MaxMicFrames)
    /\ arg_mic_first_capture_time \in {None, 0}
    /\ mic_sample_rate = 1
    /\ mic_channels = 1
    /\ loopback_sample_rate = 1
    /\ loopback_channels \in {1, 2}
    /\ tl_pc = "call"
    /\ frame_index = 1
    /\ reference_time = None
    /\ target_samples = 0
    /\ output_chunks = <<>>
    /\ current_sample_position = 0
    /\ gap_count = 0
    /\ total_gap_samples = 0
    /\ skipped_frames = 0
    /\ output = <<>>

SpecSilence == SilenceInit /\ [][TlNext]_vars

\* Any mic frames and any rates, a rate or channel count of 0 included, with
\* no desktop frame or one.
AnyRateInit ==
    /\ WinConstructed(0, FALSE)
    /\ arg_desktop_frames \in SeqsUpTo(DesktopFrameSet, 1)
    /\ arg_mic_frames \in SeqsUpTo({2, 4}, MaxMicFrames)
    /\ arg_mic_first_capture_time \in {None, 0}
    /\ mic_sample_rate \in {0, 2}
    /\ mic_channels \in {0, 1}
    /\ loopback_sample_rate \in {0, 3}
    /\ loopback_channels \in {1, 2}
    /\ tl_pc = "call"
    /\ frame_index = 1
    /\ reference_time = None
    /\ target_samples = 0
    /\ output_chunks = <<>>
    /\ current_sample_position = 0
    /\ gap_count = 0
    /\ total_gap_samples = 0
    /\ skipped_frames = 0
    /\ output = <<>>

SpecAnyRate == AnyRateInit /\ [][TlNext]_vars

\* time.time() advances.
Tick ==
    /\ main_pc # "exited"
    /\ now < MaxTime
    /\ now' = now + 1
    /\ UNCHANGED <<cfgVars, micBufVars, deskBufVars, streamVars, cbVars,
                   callVars, pipeVars, is_recording, recording_start_time,
                   main_pc, starts, cb_log>>

\* A preroll counted in callbacks instead of seconds.
MicPastPreroll_ByCount(current_time, start_time, preroll, frame_count) ==
    frame_count >= preroll

DesktopPastPreroll_ByCount(current_time, start_time, preroll, frame_count) ==
    frame_count >= preroll

\* windows_recorder.py:307-310: elapsed = current_time - recording_start_time;
\* the frame is kept if elapsed >= preroll_seconds.
MicPastPreroll(current_time, start_time, preroll, frame_count) ==
    current_time - start_time >= preroll

\* windows_recorder.py:348-351: the same test in the desktop callback.
DesktopPastPreroll(current_time, start_time, preroll, frame_count) ==
    current_time - start_time >= preroll

\* A callback of `src` can be invoked: a stream of that source is running.
StreamRunning(src, origin) ==
    IF origin = "orphan" THEN src \in orphan_streams
    ELSE IF src = "mic" THEN mic_stream = "open"
    ELSE desktop_stream = "open"

\* windows_recorder.py:286-294: PortAudio invokes _mic_callback; the callback
\* reads is_recording before taking the lock.
MicCallbackEnter ==
    /\ mic_cb = CbIdle
    /\ mic_frame_count < MaxCallbacks
    /\ \E origin \in {"current", "orphan"} :
          /\ StreamRunning("mic", origin)
          /\ mic_cb' = IF is_recording
                       THEN [at |-> "checked", from |-> origin]
                       ELSE CbIdle
    /\ UNCHANGED <<cfgVars, micBufVars, deskBufVars, streamVars, desktop_cb,
                   lock, callVars, pipeVars, is_recording,
                   recording_start_time, now, main_pc, starts, cb_log>>

\* windows_recorder.py:295: with self.lock
MicCallbackLock ==
    /\ mic_cb.at = "checked"
    /\ lock = "free"
    /\ lock' = "mic"
    /\ mic_cb' = [mic_cb EXCEPT !.at = "locked"]
    /\ UNCHANGED <<cfgVars, micBufVars, deskBufVars, streamVars, desktop_cb,
                   callVars, pipeVars, is_recording, recording_start_time,
                   now, main_pc, starts, cb_log>>

\* windows_recorder.py:296-325: the body under the lock, and the return.
MicCallbackBody ==
    /\ mic_cb.at = "locked"
    /\ LET current_time == now
           kept == MicPastPreroll(current_time, recording_start_time,
                                  preroll_seconds, mic_frame_count + 1)
       IN  /\ mic_frame_count' = mic_frame_count + 1
           /\ mic_first_capture_time' =
                  IF kept /\ mic_first_capture_time = None
                  THEN current_time ELSE mic_first_capture_time
           /\ mic_frames' = IF kept THEN Append(mic_frames, current_time)
                            ELSE mic_frames
           /\ cb_log' = cb_log \cup
                  {[src |-> "mic", t |-> current_time,
                    start |-> recording_start_time,
                    count |-> mic_frame_count + 1, kept |-> kept]}
    /\ lock' = "free"
    /\ mic_cb' = CbIdle
    /\ UNCHANGED <<cfgVars, deskBufVars, streamVars, desktop_cb, callVars,
                   pipeVars, is_recording, recording_start_time, now,
                   main_pc, starts>>

\* windows_recorder.py:327-335
DesktopCallbackEnter ==
    /\ desktop_cb = CbIdle
    /\ desktop_frame_count < MaxCallbacks
    /\ \E origin \in {"current", "orphan"} :
          /\ StreamRunning("desktop", origin)
          /\ desktop_cb' = IF is_recording
                           THEN [at |-> "checked", from |-> origin]
                           ELSE CbIdle
    /\ UNCHANGED <<cfgVars, micBufVars, deskBufVars, streamVars, mic_cb,
                   lock, callVars, pipeVars, is_recording,
                   recording_start_time, now, main_pc, starts, cb_log>>

\* windows_recorder.py:336
DesktopCallbackLock ==
    /\ desktop_cb.at = "checked"
    /\ lock = "free"
    /\ lock' = "desktop"
    /\ desktop_cb' = [desktop_cb EXCEPT !.at = "locked"]
    /\ UNCHANGED <<cfgVars, micBufVars, deskBufVars, streamVars, mic_cb,
                   callVars, pipeVars, is_recording, recording_start_time,
                   now, main_pc, starts, cb_log>>

\* windows_recorder.py:337-369
DesktopCallbackBody ==
    /\ desktop_cb.at = "locked"
    /\ LET current_time == now
           kept == DesktopPastPreroll(current_time, recording_start_time,
                                      preroll_seconds, desktop_frame_count + 1)
       IN  /\ desktop_frame_count' = desktop_frame_count + 1
           /\ desktop_frames' =
                  IF kept
                  THEN Append(desktop_frames, <<current_time, current_time>>)
                  ELSE desktop_frames
           /\ cb_log' = cb_log \cup
                  {[src |-> "desktop", t |-> current_time,
                    start |-> recording_start_time,
                    count |-> desktop_frame_count + 1, kept |-> kept]}
    /\ lock' = "free"
    /\ desktop_cb' = CbIdle
    /\ UNCHANGED <<cfgVars, micBufVars, streamVars, mic_cb, callVars,
                   pipeVars, is_recording, recording_start_time, now,
                   main_pc, starts>>

\* The controlling thread's call raises: it is back at the caller.
Raised(error, result) ==
    /\ main_pc' = "idle"
    /\ call_result' = result
    /\ last_error' = error

\* A stream reference is replaced while its stream is still open: the old
\* stream stays open in PortAudio, and a callback of it that is running now
\* is a callback of an unreferenced stream.
Orphaned(cb) == IF cb.from = "current" THEN [cb EXCEPT !.from = "orphan"]
                ELSE cb

\* windows_recorder.py:371-381: start_recording resets the buffers and the
\* counters and sets is_recording.
StartReset ==
    /\ main_pc = "idle"
    /\ starts < MaxStarts
    /\ starts' = starts + 1
    /\ mic_frames' = <<>>
    /\ desktop_frames' = <<>>
    /\ mic_frame_count' = 0
    /\ desktop_frame_count' = 0
    /\ is_recording' = TRUE
    /\ cb_log' = {}
    /\ main_pc' = "start_set_time"
    /\ UNCHANGED <<cfgVars, mic_first_capture_time, streamVars, cbVars,
                   callVars, pipeVars, recording_start_time, now>>

\* windows_recorder.py:393-402: the single reference point.
StartSetTime ==
    /\ main_pc = "start_set_time"
    /\ recording_start_time' = now
    /\ mic_first_capture_time' = None
    /\ main_pc' = "start_open_mic"
    /\ UNCHANGED <<cfgVars, mic_frames, mic_frame_count, deskBufVars,
                   streamVars, cbVars, callVars, pipeVars, is_recording, now,
                   starts, cb_log>>

\* windows_recorder.py:407-440: the mic stream is opened (at the requested
\* rate or at the device default), or RuntimeError is raised.
StartOpenMic ==
    /\ main_pc = "start_open_mic"
    /\ \/ /\ pa
          /\ mic_stream' = "open"
          /\ orphan_streams' = IF mic_stream = "open"
                               THEN orphan_streams \cup {"mic"}
                               ELSE orphan_streams
          /\ mic_cb' = IF mic_stream = "open" THEN Orphaned(mic_cb) ELSE mic_cb
          /\ main_pc' = IF mixing_mode THEN "start_open_desktop"
                        ELSE "start_streams"
          /\ UNCHANGED callVars
       \/ /\ Raised("mic_open", "start_failed")
          /\ UNCHANGED <<mic_stream, orphan_streams, mic_cb>>
    /\ UNCHANGED <<cfgVars, micBufVars, deskBufVars, desktop_stream, pa,
                   desktop_cb, lock, pipeVars, is_recording,
                   recording_start_time, now, starts, cb_log>>

\* windows_recorder.py:442-461: the desktop stream is opened; if that fails
\* the mic stream is stopped and closed and RuntimeError is raised.
\* stop_stream() returns once the stream's running callback has returned.
StartOpenDesktop ==
    /\ main_pc = "start_open_desktop"
    /\ \/ /\ pa
          /\ desktop_stream' = "open"
          /\ orphan_streams' = IF desktop_stream = "open"
                               THEN orphan_streams \cup {"desktop"}
                               ELSE orphan_streams
          /\ desktop_cb' = IF desktop_stream = "open"
                           THEN Orphaned(desktop_cb) ELSE desktop_cb
          /\ main_pc' = "start_streams"
          /\ UNCHANGED <<mic_stream, callVars>>
       \/ /\ mic_cb.from # "current"
          /\ mic_stream' = "none"
          /\ Raised("desktop_open", "start_failed")
          /\ UNCHANGED <<desktop_stream, orphan_streams, desktop_cb>>
    /\ UNCHANGED <<cfgVars, micBufVars, deskBufVars, pa, mic_cb, lock,
                   pipeVars, is_recording, recording_start_time, now, starts,
                   cb_log>>

\* windows_recorder.py:760-764: pa.terminate() closes every stream PortAudio
\* still holds; the recorder's stream references are left as they are.
Terminated(stream) == IF stream = "open" THEN "closed" ELSE stream

\* windows_recorder.py:463-470, 499-502: start_stream() on both streams, then
\* the watchdog thread is started and start_recording returns; if a stream
\* does not start, cleanup() runs and RuntimeError is raised.
StartStreams ==
    /\ main_pc = "start_streams"
    /\ \/ /\ main_pc' = "idle"
          /\ call_result' = "started"
          /\ last_error' = "none"
          /\ UNCHANGED <<streamVars>>
       \/ /\ mic_cb = CbIdle
          /\ desktop_cb = CbIdle
          /\ pa' = FALSE
          /\ mic_stream' = Terminated(mic_stream)
          /\ desktop_stream' = Terminated(desktop_stream)
          /\ orphan_streams' = {}
          /\ Raised("stream_start", "start_failed")
    /\ UNCHANGED <<cfgVars, micBufVars, deskBufVars, cbVars, pipeVars,
                   is_recording, recording_start_time, now, starts, cb_log>>

\* windows_recorder.py:504-513: stop_recording clears is_recording.
StopFlag ==
    /\ main_pc = "idle"
    /\ is_recording' = FALSE
    /\ main_pc' = "stop_close_mic"
    /\ UNCHANGED <<cfgVars, micBufVars, deskBufVars, streamVars, cbVars,
                   callVars, pipeVars, recording_start_time, now, starts,
                   cb_log>>

\* windows_recorder.py:515-519: if self.mic_stream: stop_stream(), close().
\* stop_stream() returns once the stream's running callback has returned;
\* on a stream that pa.terminate() already closed, close() may raise.
StopCloseMic ==
    /\ main_pc = "stop_close_mic"
    /\ \/ /\ mic_stream = "none"
          /\ main_pc' = "stop_close_desktop"
          /\ UNCHANGED <<mic_stream, callVars>>
       \/ /\ mic_stream = "open"
          /\ mic_cb.from # "current"
          /\ mic_stream' = "none"
          /\ main_pc' = "stop_close_desktop"
          /\ UNCHANGED callVars
       \/ /\ mic_stream = "closed"
          /\ mic_stream' = "none"
          /\ main_pc' = "stop_close_desktop"
          /\ UNCHANGED callVars
       \/ /\ mic_stream = "closed"
          /\ Raised("stream_closed", "stop_failed")
          /\ UNCHANGED mic_stream
    /\ UNCHANGED <<cfgVars, micBufVars, deskBufVars, desktop_stream,
                   orphan_streams, pa, cbVars, pipeVars, is_recording,
                   recording_start_time, now, starts, cb_log>>

\* windows_recorder.py:521-524
StopCloseDesktop ==
    /\ main_pc = "stop_close_desktop"
    /\ \/ /\ desktop_stream = "none"
          /\ main_pc' = "mix_check"
          /\ UNCHANGED <<desktop_stream, callVars>>
       \/ /\ desktop_stream = "open"
          /\ desktop_cb.from # "current"
          /\ desktop_stream' = "none"
          /\ main_pc' = "mix_check"
          /\ UNCHANGED callVars
       \/ /\ desktop_stream = "closed"
          /\ desktop_stream' = "none"
          /\ main_pc' = "mix_check"
          /\ UNCHANGED callVars
       \/ /\ desktop_stream = "closed"
          /\ Raised("stream_closed", "stop_failed")
          /\ UNCHANGED desktop_stream
    /\ UNCHANGED <<cfgVars, micBufVars, deskBufVars, mic_stream,
                   orphan_streams, pa, cbVars, pipeVars, is_recording,
                   recording_start_time, now, starts, cb_log>>

\* windows_recorder.py:611-633: _mix_and_save raises if no mic frame was
\* captured, else joins the mic frames.
MixCheck ==
    /\ main_pc = "mix_check"
    /\ IF Len(mic_frames) = 0
       THEN /\ Raised("no_audio", "stop_failed")
            /\ UNCHANGED mic_audio
       ELSE /\ mic_audio' = mic_frames
            /\ main_pc' = "mix_tracks"
            /\ UNCHANGED callVars
    /\ UNCHANGED <<cfgVars, micBufVars, deskBufVars, streamVars, cbVars,
                   desktop_audio, final_output, is_recording,
                   recording_start_time, now, starts, cb_log>>

\* windows_recorder.py:635-715: with desktop frames the desktop timeline is
\* reconstructed and mixed with the mic track, otherwise the mic track alone
\* is processed.
MixTracks ==
    /\ main_pc = "mix_tracks"
    /\ desktop_audio' = IF mixing_mode /\ desktop_frames # <<>>
                        THEN desktop_frames ELSE <<>>
    /\ main_pc' = "mix_save"
    /\ UNCHANGED <<cfgVars, micBufVars, deskBufVars, streamVars, cbVars,
                   callVars, mic_audio, final_output, is_recording,
                   recording_start_time, now, starts, cb_log>>

\* The mix is published before the file operations that can still fail.
MixSave_PublishThenRaise ==
    /\ main_pc = "mix_save"
    /\ final_output' = [mic |-> mic_audio, desktop |-> desktop_audio]
    /\ \/ /\ main_pc' = "stop_clear"
          /\ UNCHANGED callVars
       \/ Raised("io", "stop_failed")
    /\ UNCHANGED <<cfgVars, micBufVars, deskBufVars, streamVars, cbVars,
                   mic_audio, desktop_audio, is_recording,
                   recording_start_time, now, starts, cb_log>>

\* windows_recorder.py:717-758: the mix is written and compressed and only
\* then published (output_path, _final_output_path, _recording_duration);
\* a failure of the file operations is raised.
MixSave ==
    /\ main_pc = "mix_save"
    /\ \/ /\ final_output' = [mic |-> mic_audio, desktop |-> desktop_audio]
          /\ main_pc' = "stop_clear"
          /\ UNCHANGED callVars
       \/ /\ Raised("io", "stop_failed")
          /\ UNCHANGED final_output
    /\ UNCHANGED <<cfgVars, micBufVars, deskBufVars, streamVars, cbVars,
                   mic_audio, desktop_audio, is_recording,
                   recording_start_time, now, starts, cb_log>>

\* windows_recorder.py:588-592: the buffers are cleared and stop_recording
\* returns.
StopClear ==
    /\ main_pc = "stop_clear"
    /\ mic_frames' = <<>>
    /\ desktop_frames' = <<>>
    /\ main_pc' = "idle"
    /\ call_result' = "stopped"
    /\ last_error' = "none"
    /\ UNCHANGED <<cfgVars, mic_frame_count, mic_first_capture_time,
                   desktop_frame_count, streamVars, cbVars, pipeVars,
                   is_recording, recording_start_time, now, starts, cb_log>>

\* windows_recorder.py:760-764: cleanup()
Cleanup ==
    /\ main_pc = "idle"
    /\ pa
    /\ mic_cb = CbIdle
    /\ desktop_cb = CbIdle
    /\ pa' = FALSE
    /\ mic_stream' = Terminated(mic_stream)
    /\ desktop_stream' = Terminated(desktop_stream)
    /\ orphan_streams' = {}
    /\ UNCHANGED <<cfgVars, micBufVars, deskBufVars, cbVars, callVars,
                   pipeVars, is_recording, recording_start_time, now,
                   main_pc, starts, cb_log>>

WinCallbacks ==
    \/ MicCallbackEnter \/ MicCallbackLock \/ MicCallbackBody
    \/ DesktopCallbackEnter \/ DesktopCallbackLock \/ DesktopCallbackBody

WinStart == StartReset \/ StartSetTime \/ StartOpenMic \/ StartOpenDesktop
            \/ StartStreams

\* stop_recording after it has cleared the flag, and _mix_and_save.
StopProgress == StopCloseMic \/ StopCloseDesktop \/ MixCheck \/ MixTracks
                \/ MixSave \/ StopClear

WinStop == StopFlag \/ StopProgress

WinNext == Tick \/ WinCallbacks \/ WinStart \/ WinStop \/ Cleanup

SpecWin == WinInit /\ [][WinNext]_vars

(***************************************************************************)
(* The thread that called stop_recording keeps running, and a callback     *)
(* that waits for the lock or holds it keeps running on its PortAudio      *)
(* thread: none of their steps blocks on anything but the lock.            *)
(***************************************************************************)
SpecWinFair ==
    /\ SpecWin
    /\ WF_vars(StopProgress)
    /\ WF_vars(MicCallbackLock) /\ WF_vars(MicCallbackBody)
    /\ WF_vars(DesktopCallbackLock) /\ WF_vars(DesktopCallbackBody)

(***************************************************************************)
(* The recorder of src/backend/audio_recorder.py (used by record_meeting   *)
(* and the recorder tests).  It has the same streams, lock, stop and mix   *)
(* steps as the Windows recorder; it differs in recording_start_time,      *)
(* which start_recording never assigns: the constructor sets it to None    *)
(* and the first callback that finds it None assigns its own time.         *)
(***************************************************************************)

\* audio_recorder.py:318-328: start_recording resets the buffers and the
\* counters and sets is_recording; recording_start_time is left as it is.
LegacyStartReset ==
    /\ main_pc = "idle"
    /\ starts < MaxStarts
    /\ starts' = starts + 1
    /\ mic_frames' = <<>>
    /\ desktop_frames' = <<>>
    /\ mic_frame_count' = 0
    /\ desktop_frame_count' = 0
    /\ is_recording' = TRUE
    /\ cb_log' = {}
    /\ main_pc' = "start_open_mic"
    /\ UNCHANGED <<cfgVars, mic_first_capture_time, streamVars, cbVars,
                   callVars, pipeVars, recording_start_time, now>>

\* audio_recorder.py:260-263, 298-301: the reference the callback uses.
LegacyStartTime(current_time) ==
    IF recording_start_time = None THEN current_time
    ELSE recording_start_time

\* audio_recorder.py:255-282: the mic callback's body under the lock.
LegacyMicCallbackBody ==
    /\ mic_cb.at = "locked"
    /\ LET current_time == now
           start_time == LegacyStartTime(current_time)
           kept == current_time - start_time >= preroll_seconds
       IN  /\ mic_frame_count' = mic_frame_count + 1
           /\ recording_start_time' = start_time
           /\ mic_frames' = IF kept THEN Append(mic_frames, current_time)
                            ELSE mic_frames
           /\ cb_log' = cb_log \cup
                  {[src |-> "mic", t |-> current_time, start |-> start_time,
                    count |-> mic_frame_count + 1, kept |-> kept]}
    /\ lock' = "free"
    /\ mic_cb' = CbIdle
    /\ UNCHANGED <<cfgVars, mic_first_capture_time, deskBufVars, streamVars,
                   desktop_cb, callVars, pipeVars, is_recording, now,
                   main_pc, starts>>

\* audio_recorder.py:293-316: the desktop callback's body under the lock.
LegacyDesktopCallbackBody ==
    /\ desktop_cb.at = "locked"
    /\ LET current_time == now
           start_time == LegacyStartTime(current_time)
           kept == current_time - start_time >= preroll_seconds
       IN  /\ desktop_frame_count' = desktop_frame_count + 1
           /\ recording_start_time' = start_time
           /\ desktop_frames' =
                  IF kept
                  THEN Append(desktop_frames, <<current_time, current_time>>)
                  ELSE desktop_frames
           /\ cb_log' = cb_log \cup
                  {[src |-> "desktop", t |-> current_time,
                    start |-> start_time,
                    count |-> desktop_frame_count + 1, kept |-> kept]}
    /\ lock' = "free"
    /\ desktop_cb' = CbIdle
    /\ UNCHANGED <<cfgVars, micBufVars, streamVars, mic_cb, callVars,
                   pipeVars, is_recording, now, main_pc, starts>>

LegacyCallbacks ==
    \/ MicCallbackEnter \/ MicCallbackLock \/ LegacyMicCallbackBody
    \/ DesktopCallbackEnter \/ DesktopCallbackLock
    \/ LegacyDesktopCallbackBody

LegacyStart == LegacyStartReset \/ StartOpenMic \/ StartOpenDesktop
               \/ StartStreams

LegacyNext == Tick \/ LegacyCallbacks \/ LegacyStart \/ WinStop \/ Cleanup

SpecLegacy == WinInit /\ [][LegacyNext]_vars

(***************************************************************************)
(* MacOSAudioRecorder (src/backend/audio/macos_recorder.py), driven as its *)
(* main() drives it: start_recording, then stop_recording when the loop    *)
(* ends (and once more if a thread had reported an error), then the result *)
(* is printed.  The mic is captured by a thread that opens an              *)
(* sd.InputStream whose callback appends to mic_frames; desktop audio is   *)
(* captured by a helper into desktop_capture.audio_buffer and fetched by   *)
(* stop_recording.                                                         *)
(***************************************************************************)
MacInit ==
    /\ TlParked
    /\ \E preroll \in {0, MaxPreroll}, capture \in {"none", "idle"} :
          MacConstructed(preroll, capture)

\* macos_recorder.py:916: sys.exit ends the process and its daemon threads.
MacAlive == main_pc # "exited"

\* macos_recorder.py:220-237: start_recording returns if already running;
\* else it sets the flag, resets the buffers and the error state and fixes
\* recording_start_time.
MacStartReset ==
    /\ main_pc = "idle"
    /\ starts' = starts + 1
    /\ IF is_running
       THEN /\ main_pc' = "mac_loop"
            /\ call_result' = "start_ignored"
            /\ last_error' = "none"
            /\ UNCHANGED <<is_running, mic_frames, desktop_frames,
                           error_event, recording_start_time>>
       ELSE /\ is_running' = TRUE
            /\ mic_frames' = <<>>
            /\ desktop_frames' = <<>>
            /\ error_event' = FALSE
            /\ recording_start_time' = now
            /\ main_pc' = "mac_start_threads"
            /\ UNCHANGED callVars
    /\ UNCHANGED <<macFrame, macThreadVars, macCaptureVars, report, pipeVars,
                   now>>

\* macos_recorder.py:239-278: the device query fails and start_recording
\* clears the flag and returns, or the threads are created and started.
MacStartThreads ==
    /\ main_pc = "mac_start_threads"
    /\ main_pc' = "mac_loop"
    /\ last_error' = "none"
    /\ \/ /\ is_running' = FALSE
          /\ call_result' = "start_failed"
          /\ UNCHANGED <<mic_thread, desktop_thread>>
       \/ /\ mic_thread' = "starting"
          /\ desktop_thread' = IF desktop_capture # "none" THEN "starting"
                               ELSE desktop_thread
          /\ call_result' = "started"
          /\ UNCHANGED is_running
    /\ UNCHANGED <<macFrame, mac_frame_count, mac_cb, level_lock,
                   macCaptureVars, error_event, report, pipeVars, mic_frames,
                   desktop_frames, recording_start_time, now, starts>>

\* macos_recorder.py:280-288, 319-325, 332-348: _record_microphone opens the
\* input stream, or fails: the handler records the error and clears the flag.
MacMicOpen ==
    /\ MacAlive
    /\ mic_thread = "starting"
    /\ \/ /\ mic_thread' = "streaming"
          /\ UNCHANGED <<is_running, error_event>>
       \/ /\ mic_thread' = "done"
          /\ error_event' = TRUE
          /\ is_running' = FALSE
    /\ UNCHANGED <<macFrame, desktop_thread, mac_frame_count, mac_cb,
                   level_lock, macCaptureVars, report, pipeVars, callVars,
                   mic_frames, desktop_frames, recording_start_time, now,
                   main_pc, starts>>

\* macos_recorder.py:326-328: the thread's poll finds the flag cleared and
\* leaves the `with` block.
MacMicPollExit ==
    /\ MacAlive
    /\ mic_thread = "streaming"
    /\ ~is_running
    /\ mic_thread' = "closing"
    /\ UNCHANGED <<macFrame, is_running, desktop_thread, mac_frame_count,
                   mac_cb, level_lock, macCaptureVars, error_event, report,
                   pipeVars, callVars, mic_frames, desktop_frames,
                   recording_start_time, now, main_pc, starts>>

\* macos_recorder.py:320-330: InputStream.__exit__ has stopped and closed the
\* stream, which waits for a callback in progress; the thread ends.
MacMicClosed ==
    /\ MacAlive
    /\ mic_thread = "closing"
    /\ mac_cb = "idle"
    /\ mic_thread' = "done"
    /\ UNCHANGED <<macFrame, is_running, desktop_thread, mac_frame_count,
                   mac_cb, level_lock, macCaptureVars, error_event, report,
                   pipeVars, callVars, mic_frames, desktop_frames,
                   recording_start_time, now, main_pc, starts>>

\* macos_recorder.py:290-308: audio_callback, invoked while the stream is
\* open: a preroll frame is counted and dropped, a later one is appended to
\* mic_frames.
MacAudioCallbackStore ==
    /\ MacAlive
    /\ mic_thread \in {"streaming", "closing"}
    /\ mac_cb = "idle"
    /\ mac_frame_count < MaxCallbacks
    /\ LET elapsed == now - recording_start_time
       IN  IF elapsed < preroll_seconds
           THEN /\ mac_frame_count' = mac_frame_count + 1
                /\ UNCHANGED <<mic_frames, mac_cb>>
           ELSE /\ mic_frames' = Append(mic_frames, now)
                /\ mac_cb' = "stored"
                /\ UNCHANGED mac_frame_count
    /\ UNCHANGED <<macFrame, is_running, mic_thread, desktop_thread,
                   level_lock, macCaptureVars, error_event, report, pipeVars,
                   callVars, desktop_frames, recording_start_time, now,
                   main_pc, starts>>

\* macos_recorder.py:310-314: with self.level_lock
MacAudioCallbackLock ==
    /\ MacAlive
    /\ mac_cb = "stored"
    /\ level_lock = "free"
    /\ level_lock' = "mic"
    /\ mac_cb' = "locked"
    /\ UNCHANGED <<macFrame, is_running, mic_thread, desktop_thread,
                   mac_frame_count, macCaptureVars, error_event, report,
                   pipeVars, callVars, mic_frames, desktop_frames,
                   recording_start_time, now, main_pc, starts>>

\* macos_recorder.py:315-317: the level is stored, the lock released, the
\* frame counted, and the callback returns.
MacAudioCallbackLevel ==
    /\ MacAlive
    /\ mac_cb = "locked"
    /\ level_lock' = "free"
    /\ mac_frame_count' = mac_frame_count + 1
    /\ mac_cb' = "idle"
    /\ UNCHANGED <<macFrame, is_running, mic_thread, desktop_thread,
                   macCaptureVars, error_event, report, pipeVars, callVars,
                   mic_frames, desktop_frames, recording_start_time, now,
                   main_pc, starts>>

\* macos_recorder.py:350-372, swift_audio_capture.py:147-219: _record_desktop
\* starts the capture (which empties audio_buffer; a capture already running
\* is left running), or gives up if the capture does not start.
MacDesktopStart ==
    /\ MacAlive
    /\ desktop_thread = "starting"
    /\ \/ /\ desktop_capture' = "capturing"
          /\ audio_buffer' = IF desktop_capture = "capturing"
                             THEN audio_buffer ELSE <<>>
          /\ desktop_thread' = "monitoring"
       \/ /\ desktop_capture = "idle"
          /\ desktop_thread' = "done"
          /\ UNCHANGED macCaptureVars
    /\ UNCHANGED <<macFrame, is_running, mic_thread, mac_frame_count, mac_cb,
                   level_lock, error_event, report, pipeVars, callVars,
                   mic_frames, desktop_frames, recording_start_time, now,
                   main_pc, starts>>

\* macos_recorder.py:378-399: the monitoring loop ends when the flag is
\* cleared.
MacDesktopPollExit ==
    /\ MacAlive
    /\ desktop_thread = "monitoring"
    /\ ~is_running
    /\ desktop_thread' = "done"
    /\ UNCHANGED <<macFrame, is_running, mic_thread, mac_frame_count, mac_cb,
                   level_lock, macCaptureVars, error_event, report, pipeVars,
                   callVars, mic_frames, desktop_frames,
                   recording_start_time, now, main_pc, starts>>

\* swift_audio_capture.py:312-338: the reader thread appends a block of
\* desktop audio to audio_buffer.
MacSwiftRead ==
    /\ MacAlive
    /\ desktop_capture = "capturing"
    /\ Len(audio_buffer) < MaxCallbacks
    /\ audio_buffer' = Append(audio_buffer, "block")
    /\ UNCHANGED <<macFrame, is_running, macThreadVars, desktop_capture,
                   error_event, report, pipeVars, callVars, mic_frames,
                   desktop_frames, recording_start_time, now, main_pc,
                   starts>>

\* macos_recorder.py:858-868, 895-898: where main continues when
\* stop_recording returns to it: a stop_recording that main called because a
\* thread had reported an error is followed by the one after the loop.
MacReturnTo(from) ==
    IF from = "mac_loop" /\ error_event THEN "mac_error_stopped"
    ELSE "mac_done"

\* macos_recorder.py:420-427: stop_recording returns if not running, else
\* clears the flag.
MacStopGuard ==
    /\ main_pc \in {"mac_loop", "mac_error_stopped"}
    /\ IF ~is_running
       THEN /\ main_pc' = MacReturnTo(main_pc)
            /\ call_result' = "stop_ignored"
            /\ last_error' = "none"
            /\ UNCHANGED <<is_running, mic_audio, desktop_audio>>
       ELSE /\ is_running' = FALSE
            /\ main_pc' = "mac_join_mic"
            /\ mic_audio' = <<>>
            /\ desktop_audio' = <<>>
            /\ UNCHANGED callVars
    /\ UNCHANGED <<macFrame, macThreadVars, macCaptureVars, error_event,
                   report, final_output, mic_frames, desktop_frames,
                   recording_start_time, now, starts>>

\* macos_recorder.py:429-431: self.mic_thread.join(timeout=2.0) returns when
\* the thread has ended or when the timeout expires.
MacJoinMic ==
    /\ main_pc = "mac_join_mic"
    /\ \/ mic_thread \in {"none", "done"}
       \/ mic_thread \notin {"none", "done"}
    /\ main_pc' = "mac_join_desktop"
    /\ UNCHANGED <<macFrame, macVars, pipeVars, callVars, mic_frames,
                   desktop_frames, recording_start_time, now, starts>>

\* macos_recorder.py:432-433: self.desktop_thread.join(timeout=2.0)
MacJoinDesktop ==
    /\ main_pc = "mac_join_desktop"
    /\ \/ desktop_thread \in {"none", "done"}
       \/ desktop_thread \notin {"none", "done"}
    /\ main_pc' = "mac_stop_capture"
    /\ UNCHANGED <<macFrame, macVars, pipeVars, callVars, mic_frames,
                   desktop_frames, recording_start_time, now, starts>>

\* macos_recorder.py:435-445, swift_audio_capture.py:446-531: the capture is
\* stopped and what it buffered becomes the one desktop frame.
MacStopCapture ==
    /\ main_pc = "mac_stop_capture"
    /\ IF desktop_capture = "capturing"
       THEN /\ desktop_capture' = "idle"
            /\ audio_buffer' = <<>>
            /\ desktop_frames' = IF audio_buffer # <<>>
                                 THEN <<audio_buffer>> ELSE desktop_frames
       ELSE UNCHANGED <<macCaptureVars, desktop_frames>>
    /\ main_pc' = "mac_process_check"
    /\ UNCHANGED <<macFrame, is_running, macThreadVars, error_event, report,
                   pipeVars, callVars, mic_frames, recording_start_time, now,
                   starts>>

\* macos_recorder.py:453-457, 448-451: _process_and_save prints an error and
\* returns if there is no mic frame, and stop_recording returns.
MacProcessCheck ==
    /\ main_pc = "mac_process_check"
    /\ IF Len(mic_frames) = 0
       THEN /\ main_pc' = MacReturnTo("mac_loop")
            /\ call_result' = "stopped"
            /\ last_error' = "none"
       ELSE /\ main_pc' = "mac_process_concat"
            /\ UNCHANGED callVars
    /\ UNCHANGED <<macFrame, macVars, pipeVars, mic_frames, desktop_frames,
                   recording_start_time, now, starts>>

\* macos_recorder.py:459-469: the frames are concatenated.
MacProcessConcat ==
    /\ main_pc = "mac_process_concat"
    /\ mic_audio' = mic_frames
    /\ desktop_audio' = desktop_frames
    /\ main_pc' = "mac_process_save"
    /\ UNCHANGED <<macFrame, macVars, callVars, final_output, mic_frames,
                   desktop_frames, recording_start_time, now, starts>>

\* macos_recorder.py:471-551: the tracks are mixed, written and compressed,
\* final_output_path and recording_duration are set and stop_recording
\* returns; or writing the file raises, which ends main.
MacProcessSave ==
    /\ main_pc = "mac_process_save"
    /\ \/ /\ final_output' = [mic |-> mic_audio, desktop |-> desktop_audio]
          /\ main_pc' = MacReturnTo("mac_loop")
          /\ call_result' = "stopped"
          /\ last_error' = "none"
       \/ /\ main_pc' = "exited"
          /\ call_result' = "stop_failed"
          /\ last_error' = "io"
          /\ UNCHANGED final_output
    /\ UNCHANGED <<macFrame, macVars, mic_audio, desktop_audio, mic_frames,
                   desktop_frames, recording_start_time, now, starts>>

\* macos_recorder.py:900-916: after stop_recording has returned, main prints
\* the result and exits.
MacMainReport ==
    /\ main_pc = "mac_done"
    /\ report' = [printed |-> TRUE, success |-> TRUE,
                  outputPath |-> IF final_output # NoOutput
                                 THEN "final_output_path" ELSE "args_output"]
    /\ main_pc' = "exited"
    /\ UNCHANGED <<macFrame, is_running, macThreadVars, macCaptureVars,
                   error_event, pipeVars, callVars, mic_frames,
                   desktop_frames, recording_start_time, now, starts>>

MacThreads ==
    \/ MacMicOpen \/ MacMicPollExit \/ MacMicClosed
    \/ MacAudioCallbackStore \/ MacAudioCallbackLock \/ MacAudioCallbackLevel
    \/ MacDesktopStart \/ MacDesktopPollExit \/ MacSwiftRead

MacStart == MacStartReset \/ MacStartThreads

MacStop == MacStopGuard \/ MacJoinMic \/ MacJoinDesktop \/ MacStopCapture
           \/ MacProcessCheck \/ MacProcessConcat \/ MacProcessSave

MacNext == Tick \/ MacThreads \/ MacStart \/ MacStop \/ MacMainReport

SpecMac == MacInit /\ [][MacNext]_vars

(***************************************************************************)
(* align_audio_lengths and mix_audio (src/backend/audio/processor.py), as  *)
(* AudioRecorder._mix_and_save calls them one after the other, and their   *)
(* inline copies in MacOSAudioRecorder._process_and_save.  A track is the  *)
(* sequence of its samples on the int16 scale (a macOS float sample x is   *)
(* the integer 32768 * x); the volumes are the default 1.0.                *)
(***************************************************************************)
engineVars == <<tlVars, preroll_seconds, mixing_mode, macVars, micBufVars,
                deskBufVars, streamVars, cbVars, callVars, pipeVars,
                is_recording, recording_start_time, now, main_pc, starts,
                cb_log>>

\* What no step of the mixer changes.
mixFrame == <<engineVars, wdVars, levelVars, probeVars, procVars,
             mix_platform,
              arg_audio1, arg_audio2>>

SampleSet == {-32768, -16384, 0, 16384, 32767}

Zeros(n) == [i \in 1..n |-> 0]

Abs(x) == IF x < 0 THEN -x ELSE x

\* int(): the quotient rounded towards zero
TruncDiv(a, b) == IF a >= 0 THEN a \div b ELSE -((-a) \div b)

RECURSIVE MaxOfSeq(_)
MaxOfSeq(s) == IF s = <<>> THEN 0 ELSE Max(Head(s), MaxOfSeq(Tail(s)))

\* processor.py:203-207, macos_recorder.py:502-503.  The sum of the boosted
\* mic sample and the desktop sample, in units of 1/32768.
MixedSample(mic, desktop) == MIC_BOOST_LINEAR * mic + desktop

\* processor.py:211, macos_recorder.py:508.  np.tanh(mixed * 0.85) scaled by
\* 32767 and cut to an integer, at the sums the samples of SampleSet can
\* give; the argument is the sum in units of 1/32768.
Tanh085 ==
    (-98304 :> -32369) @@ (-81920 :> -31845) @@ (-65536 :> -30650) @@
    (-49152 :> -28020) @@ (-32769 :> -22644) @@ (-32768 :> -22644) @@
    (-16384 :> -13143) @@ (-1 :> 0) @@ (0 :> 0) @@ (16384 :> 13143) @@
    (32766 :> 22643) @@ (32767 :> 22643) @@ (32768 :> 22644) @@
    (49150 :> 28020) @@ (49152 :> 28020) @@ (65534 :> 30650) @@
    (65535 :> 30650) @@ (81918 :> 31845) @@ (98301 :> 32369)

\* the limiter applied only to a peak above 2.0
MixWith_LateLimit(limiter, mic, desktop) ==
    LET sums    == [i \in 1..Len(mic) |-> MixedSample(mic[i], desktop[i])]
        max_val == MaxOfSeq([i \in 1..Len(sums) |-> Abs(sums[i])])
    IN  IF max_val > 65536
        THEN [i \in 1..Len(sums) |-> limiter[sums[i]]]
        ELSE [i \in 1..Len(sums) |->
                 TruncDiv(sums[i] * 32767, 32768)]

\* processor.py:209-213.  The peak test, the limiter and the conversion to
\* int16 by (mixed * 32767.0).astype(np.int16); `limiter` is the curve
\* applied when the peak exceeds 1.0.
MixWith(limiter, mic, desktop) ==
    LET sums    == [i \in 1..Len(mic) |-> MixedSample(mic[i], desktop[i])]
        max_val == MaxOfSeq([i \in 1..Len(sums) |-> Abs(sums[i])])
    IN  IF max_val > 32768
        THEN [i \in 1..Len(sums) |-> limiter[sums[i]]]
        ELSE [i \in 1..Len(sums) |->
                 TruncDiv(sums[i] * 32767, 32768)]

\* the sums scaled by 0.85 without the tanh
mix_audio_Unlimited(mic, desktop) ==
    MixWith([n \in DOMAIN Tanh085 |-> TruncDiv(n * 17, 20)], mic, desktop)

mix_audio(mic, desktop) == MixWith(Tanh085, mic, desktop)

\* processor.py:226, macos_recorder.py:485: the length both tracks are
\* brought to.
AlignLength_Min(len1, len2) == Min(len1, len2)

AlignLength(len1, len2) == Max(len1, len2)

\* processor.py:229-231 and 233-235, macos_recorder.py:488-497: the track
\* followed by np.zeros(max_length - len).
Padded(audio, max_length) == audio \o Zeros(max_length - Len(audio))

\* processor.py:203-207: the sums the peak test and the limiter see.
PreLimit == [i \in 1..Min(Len(audio1), Len(audio2)) |->
                MixedSample(audio1[i], audio2[i])]

MixInit ==
    /\ TlParked
    /\ WinFields(0, TRUE)
    /\ MacFields("none")
    /\ WdFields
    /\ LevelFields
    /\ ProbeParked
    /\ ProcParked
    /\ mix_platform \in {"windows", "macos"}
    /\ arg_audio1 \in SeqsUpTo(SampleSet, MaxAudioLen)
    /\ arg_audio2 \in SeqsUpTo(SampleSet, MaxAudioLen)
    /\ audio1 = arg_audio1
    /\ audio2 = arg_audio2
    /\ mixed = <<>>
    /\ mix_pc = "align1"

\* processor.py:226-231: max_length and the first `if`;
\* macos_recorder.py:481-492: target_length and the `if` on the mic track.
AlignFirst ==
    /\ mix_pc = "align1"
    /\ LET len1 == Len(audio1)
           len2 == Len(audio2)
           max_length == AlignLength(len1, len2)
       IN  audio1' = IF len1 < max_length
                     THEN Padded(audio1, max_length)
                     ELSE audio1
    /\ mix_pc' = "align2"
    /\ UNCHANGED <<mixFrame, audio2, mixed>>

\* processor.py:233-237: the second `if` and the return;
\* macos_recorder.py:493-497: the `elif` on the desktop track, which runs
\* only when the mic track was not the shorter one.
AlignSecond ==
    /\ mix_pc = "align2"
    /\ LET len1 == Len(arg_audio1)
           len2 == Len(audio2)
           max_length == AlignLength(len1, len2)
           taken == mix_platform = "windows" \/ ~(len1 < max_length)
       IN  audio2' = IF taken /\ len2 < max_length
                     THEN Padded(audio2, max_length)
                     ELSE audio2
    /\ mix_pc' = "mix"
    /\ UNCHANGED <<mixFrame, audio1, mixed>>

\* windows_recorder.py:691-696 and processor.py:203-213;
\* macos_recorder.py:500-508.
MixAudio ==
    /\ mix_pc = "mix"
    /\ mixed' = mix_audio(audio1, audio2)
    /\ mix_pc' = "returned"
    /\ UNCHANGED <<mixFrame, audio1, audio2>>

MixNext == AlignFirst \/ AlignSecond \/ MixAudio

SpecMix == MixInit /\ [][MixNext]_vars

(***************************************************************************)
(* AudioRecorder._mix_and_save around the timeline (windows_recorder.py     *)
(* 630-696) when the target format is the loopback format: the mic track   *)
(* is resampled to it, the reconstructed desktop track is used as it is,   *)
(* both are aligned and mixed.  Lengths are in samples of that format.     *)
(***************************************************************************)
\* windows_recorder.py:631-632: the mic samples of the joined mic frames
MicSamples(micFrames) == SumSeq(micFrames) \div 2

\* windows_recorder.py:644-654: the length of the mic track once resampled
\* and converted to the target format
MicTrackLength ==
    (MicSamples(arg_mic_frames) * loopback_sample_rate * loopback_channels)
        \div (mic_sample_rate * mic_channels)

\* windows_recorder.py:639: the length of the reconstructed desktop track
DesktopTrackLength == ChunksLen(output)

\* windows_recorder.py:682-696: align_audio_lengths, then mix_audio, which
\* returns one sample per aligned sample
FinalMixedLength == AlignLength(MicTrackLength, DesktopTrackLength)

\* windows_recorder.py:416: one mic callback delivers frames_per_buffer
\* frames; the interval of the largest chunk delivered, in target samples
ChunkInterval ==
    LET largest == MaxOfSeq([i \in DOMAIN arg_mic_frames |->
                                arg_mic_frames[i] \div 2])
    IN  (largest * loopback_sample_rate * loopback_channels)
            \div (mic_sample_rate * mic_channels) + 1

(***************************************************************************)
(* The callback watchdog of AudioRecorder (windows_recorder.py:472-500),   *)
(* with the recorder driven as its host drives it: start_recording when    *)
(* idle, stop_recording when recording.  start_recording is followed up to *)
(* the thread it starts and stop_recording up to the streams it closes;    *)
(* every call of start_recording starts a watchdog thread of its own.  The *)
(* clock advances by whole check intervals.                                *)
(***************************************************************************)
\* What no step of the watchdog, of the calls or of the callback changes.
wdFrame == <<tlVars, preroll_seconds, mixing_mode, macVars, mic_frame_count,
             mic_first_capture_time, deskBufVars, desktop_stream,
             orphan_streams, pa, cbVars, callVars, pipeVars,
             recording_start_time, cb_log, mixVars, levelVars, probeVars,
             procVars>>

WdInit == TlParked /\ WinConstructed(0, FALSE)

\* time.time() advances; the clock is looked at once per check interval
WdTick ==
    /\ now < MaxWatchSeconds * TicksPerSecond
    /\ now' = now + WATCHDOG_CHECK_INTERVAL * TicksPerSecond
    /\ UNCHANGED <<wdFrame, wdVars, is_recording, mic_frames, mic_stream,
                   starts, main_pc>>

\* windows_recorder.py:371-500: start_recording
WdStart ==
    /\ main_pc = "idle"
    /\ ~is_recording
    /\ starts < MaxStarts
    /\ starts' = starts + 1
    /\ mic_frames' = <<>>
    /\ is_recording' = TRUE
    /\ watchdog_warning_shown' = FALSE
    /\ warnings' = 0
    /\ mic_stream' = "open"
    /\ wd_pc' = [wd_pc EXCEPT ![starts + 1] = "begin"]
    /\ UNCHANGED <<wdFrame, now, main_pc, last_callback_time,
                   watchdog_running, wd_wake, join_deadline>>

\* windows_recorder.py:286-325: _mic_callback, with no preroll; the block it
\* delivers is not told from the others
WdCallback ==
    /\ mic_stream = "open"
    /\ Len(mic_frames) < MaxCallbacks
    /\ last_callback_time' = now
    /\ mic_frames' = IF is_recording THEN Append(mic_frames, "block")
                     ELSE mic_frames
    /\ UNCHANGED <<wdFrame, now, is_recording, mic_stream, starts, main_pc,
                   watchdog_running, watchdog_warning_shown, wd_pc, wd_wake,
                   join_deadline, warnings>>

\* windows_recorder.py:475-476
WdBegin(i) ==
    /\ wd_pc[i] = "begin"
    /\ watchdog_running' = TRUE
    /\ last_callback_time' = now
    /\ wd_pc' = [wd_pc EXCEPT ![i] = "loop"]
    /\ UNCHANGED <<wdFrame, now, is_recording, mic_frames, mic_stream,
                   starts, main_pc, watchdog_warning_shown, wd_wake,
                   join_deadline, warnings>>

\* windows_recorder.py:478-479: the loop test, and the sleep begun; the last
\* value of the clock stands for every later time, so a sleep that ends
\* later ends there
WdLoopTest(i) ==
    /\ wd_pc[i] = "loop"
    /\ IF is_recording /\ watchdog_running
       THEN /\ wd_pc' = [wd_pc EXCEPT ![i] = "sleep"]
            /\ wd_wake' = [wd_wake EXCEPT ![i] =
                               Min(now + WATCHDOG_CHECK_INTERVAL * TicksPerSecond,
                                   MaxWatchSeconds * TicksPerSecond)]
       ELSE /\ wd_pc' = [wd_pc EXCEPT ![i] = "done"]
            /\ UNCHANGED wd_wake
    /\ UNCHANGED <<wdFrame, now, is_recording, mic_frames, mic_stream,
                   starts, main_pc, last_callback_time, watchdog_running,
                   watchdog_warning_shown, join_deadline, warnings>>

\* windows_recorder.py:479: time.sleep returns
WdWake(i) ==
    /\ wd_pc[i] = "sleep"
    /\ now >= wd_wake[i]
    /\ wd_pc' = [wd_pc EXCEPT ![i] = "check"]
    /\ wd_wake' = [wd_wake EXCEPT ![i] = 0]
    /\ UNCHANGED <<wdFrame, now, is_recording, mic_frames, mic_stream,
                   starts, main_pc, last_callback_time, watchdog_running,
                   watchdog_warning_shown, join_deadline, warnings>>

\* windows_recorder.py:485
WdShouldWarn(elapsed, shown) ==
    elapsed > WATCHDOG_STALL_THRESHOLD * TicksPerSecond /\ ~shown

\* windows_recorder.py:481-495: the stall test, and the warning printed
WdCheck(i) ==
    /\ wd_pc[i] = "check"
    /\ IF is_recording
          /\ WdShouldWarn(now - last_callback_time, watchdog_warning_shown)
       THEN /\ wd_pc' = [wd_pc EXCEPT ![i] = "warn"]
            /\ warnings' = warnings + 1
       ELSE /\ wd_pc' = [wd_pc EXCEPT ![i] = "loop"]
            /\ UNCHANGED warnings
    /\ UNCHANGED <<wdFrame, now, is_recording, mic_frames, mic_stream,
                   starts, main_pc, last_callback_time, watchdog_running,
                   watchdog_warning_shown, wd_wake, join_deadline>>

\* windows_recorder.py:496
WdWarned(i) ==
    /\ wd_pc[i] = "warn"
    /\ watchdog_warning_shown' = TRUE
    /\ wd_pc' = [wd_pc EXCEPT ![i] = "loop"]
    /\ UNCHANGED <<wdFrame, now, is_recording, mic_frames, mic_stream,
                   starts, main_pc, last_callback_time, watchdog_running,
                   wd_wake, join_deadline, warnings>>

\* windows_recorder.py:504-513: stop_recording up to the join, which waits
\* for the thread for at most a second
WdStopFlag ==
    /\ main_pc = "idle"
    /\ is_recording
    /\ is_recording' = FALSE
    /\ watchdog_running' = FALSE
    /\ join_deadline' = now + TicksPerSecond
    /\ main_pc' = "stop_join"
    /\ UNCHANGED <<wdFrame, now, mic_frames, mic_stream, starts,
                   last_callback_time, watchdog_warning_shown, wd_pc, wd_wake,
                   warnings>>

\* windows_recorder.py:513-518: the join returns, the mic stream is closed
WdStopJoined ==
    /\ main_pc = "stop_join"
    /\ wd_pc[starts] = "done" \/ now >= join_deadline
    /\ mic_stream' = "closed"
    /\ main_pc' = "idle"
    /\ join_deadline' = 0
    /\ UNCHANGED <<wdFrame, now, is_recording, mic_frames, starts,
                   last_callback_time, watchdog_running,
                   watchdog_warning_shown, wd_pc, wd_wake, warnings>>

WdThread == \E i \in 1..MaxStarts :
                WdBegin(i) \/ WdLoopTest(i) \/ WdWake(i) \/ WdCheck(i)
                    \/ WdWarned(i)

WdNext == WdTick \/ WdStart \/ WdCallback \/ WdThread \/ WdStopFlag
              \/ WdStopJoined

SpecWatchdog == WdInit /\ [][WdNext]_vars

\* The clock advances, and a watchdog thread that can take a step takes it:
\* it is a daemon thread that blocks on nothing but its sleep.
SpecWatchdogFair ==
    /\ SpecWatchdog
    /\ WF_vars(WdTick)
    /\ \A i \in 1..MaxStarts :
           WF_vars(WdBegin(i) \/ WdLoopTest(i) \/ WdWake(i) \/ WdCheck(i)
                       \/ WdWarned(i))

(***************************************************************************)
(* The level meter of AudioRecorder: each callback stores the subsampled   *)
(* peak of its frame in mic_level / desktop_level, and main() prints both  *)
(* fields five times a second for the host.  A level x is kept as the      *)
(* integer 32768 * x.                                                      *)
(***************************************************************************)
levelFrame == <<engineVars, mixVars, wdVars, probeVars, procVars, in_data>>

\* np.abs on an int16 array: the result is int16 too, and the magnitude of
\* -32768 does not fit
Int16Abs(x) == IF x = -32768 THEN -32768 ELSE Abs(x)

\* data[::LEVEL_SUBSAMPLE_FACTOR]: the samples at offsets 0, 8, 16, ...
Subsampled(data) ==
    {data[i] : i \in {j \in DOMAIN data :
                         (j - 1) % LEVEL_SUBSAMPLE_FACTOR = 0}}

\* ndarray.max()
MaxOfSet(S) == CHOOSE m \in S : \A x \in S : x <= m

\* windows_recorder.py:319-321, 363-365: float(peak) / 32768.0
LevelOf(data) ==
    IF Len(data) > 0
    THEN MaxOfSet({Int16Abs(x) : x \in Subsampled(data)})
    ELSE 0

LevelInit ==
    /\ TlParked
    /\ WinFields(0, TRUE)
    /\ MacFields("none")
    /\ MixParked
    /\ WdFields
    /\ ProbeParked
    /\ ProcParked
    /\ in_data \in SeqsUpTo({-32768, 0, 32767}, MaxLevelFrame)
    /\ mic_level = 0
    /\ desktop_level = 0
    /\ levels_out = <<>>

\* windows_recorder.py:317-323: _mic_callback stores the level of its frame
LevelMicCallback ==
    /\ mic_level' = LevelOf(in_data)
    /\ UNCHANGED <<levelFrame, desktop_level, levels_out>>

\* windows_recorder.py:361-367: _desktop_callback does the same
LevelDesktopCallback ==
    /\ desktop_level' = LevelOf(in_data)
    /\ UNCHANGED <<levelFrame, mic_level, levels_out>>

\* windows_recorder.py:839-848: main() prints the two fields as they are
LevelPrint ==
    /\ levels_out = <<>>
    /\ levels_out' = <<[mic |-> mic_level, desktop |-> desktop_level]>>
    /\ UNCHANGED <<levelFrame, mic_level, desktop_level>>

LevelNext == LevelMicCallback \/ LevelDesktopCallback \/ LevelPrint

SpecLevel == LevelInit /\ [][LevelNext]_vars

(***************************************************************************)
(* Sample-rate negotiation of AudioRecorder: __init__ picks the mic rate   *)
(* and probes the loopback device, start_recording opens the mic stream    *)
(* (with one fallback) and the desktop stream.  A device is what PortAudio *)
(* reports as its default rate and the set of rates at which pa.open       *)
(* succeeds on it.                                                         *)
(***************************************************************************)
\* constants.py:9
COMMON_SAMPLE_RATES == <<48000, 44100, 32000, 16000, 8000>>

\* The negotiation has left the probe behind.
ProbeOver == probe_pc \in {"open_mic", "open_desktop", "done"}

\* windows_recorder.py:119-126, 409-440: the rates start_recording opens the
\* mic stream at before it gives up
MicAttempts ==
    IF mic_device.defaultSampleRate < 48000 /\ sample_rate = 48000
    THEN {sample_rate, mic_device.defaultSampleRate}
    ELSE {mic_device.defaultSampleRate}

\* What no step of the negotiation changes.
probeFrame == <<arg_desktop_frames, arg_mic_frames,
                arg_mic_first_capture_time, mic_channels, loopback_channels,
                tl_pc, frame_index, reference_time, target_samples,
                output_chunks, current_sample_position, gap_count,
                total_gap_samples, skipped_frames, output, preroll_seconds,
                mixing_mode, macVars, micBufVars, deskBufVars, streamVars,
                cbVars, callVars, pipeVars, is_recording,
                recording_start_time, now, main_pc, starts, cb_log, mixVars,
                wdVars, levelVars, procVars, mic_device, loopback_device,
                sample_rate>>

\* The list built with a rate appended whether or not it is there already.
RatesToTry_Repeating(default_rate) == <<default_rate>> \o COMMON_SAMPLE_RATES

\* windows_recorder.py:231-235: rates_to_try
RECURSIVE AppendNew(_, _, _)
AppendNew(list, rates, default_rate) ==
    IF rates = <<>> THEN list
    ELSE LET rate == Head(rates)
             present == \E i \in DOMAIN list : list[i] = rate
         IN  AppendNew(IF rate # default_rate /\ ~present
                       THEN Append(list, rate) ELSE list,
                       Tail(rates), default_rate)

RatesToTry(default_rate) ==
    AppendNew(<<default_rate>>, COMMON_SAMPLE_RATES, default_rate)

ProbeInit ==
    /\ TlParked
    /\ WinFields(0, TRUE)
    /\ MacFields("none")
    /\ MixParked
    /\ WdFields
    /\ LevelFields
    /\ ProcParked
    /\ mic_device \in [defaultSampleRate : {16000, 48000},
                        opens : SUBSET {48000, 44100, 16000}]
    /\ loopback_device \in [defaultSampleRate : {96000, 48000, 44100},
                             opens : SUBSET {96000, 48000, 44100, 8000}]
    /\ sample_rate \in {48000, 44100}
    /\ mic_requested_higher_rate = FALSE
    /\ rates_to_try = <<>>
    /\ rate_index = 1
    /\ trials = <<>>
    /\ probe_failed = FALSE
    /\ probe_pc = "init"
    /\ probe_result = "none"

\* windows_recorder.py:115-126: the mic rate __init__ settles on
InitMicRate ==
    /\ probe_pc = "init"
    /\ LET default_rate == mic_device.defaultSampleRate
       IN  IF default_rate < 48000 /\ sample_rate = 48000
           THEN /\ mic_sample_rate' = sample_rate
                /\ mic_requested_higher_rate' = TRUE
           ELSE /\ mic_sample_rate' = default_rate
                /\ mic_requested_higher_rate' = FALSE
    /\ probe_pc' = "probe"
    /\ UNCHANGED <<probeFrame, loopback_sample_rate, rates_to_try, rate_index,
                   trials, probe_failed, probe_result>>

\* windows_recorder.py:229-243: the probe builds its list
ProbeList ==
    /\ probe_pc = "probe"
    /\ rates_to_try' = RatesToTry(loopback_device.defaultSampleRate)
    /\ rate_index' = 1
    /\ probe_pc' = "trial"
    /\ UNCHANGED <<probeFrame, mic_sample_rate, loopback_sample_rate,
                   mic_requested_higher_rate, trials, probe_failed,
                   probe_result>>

\* windows_recorder.py:245-274 and 137-140: one trial stream; if it opens
\* the probe returns its rate and __init__ stores it
ProbeTrial ==
    /\ probe_pc = "trial"
    /\ rate_index <= Len(rates_to_try)
    /\ LET rate == rates_to_try[rate_index]
       IN  /\ trials' = Append(trials, rate)
           /\ IF rate \in loopback_device.opens
              THEN /\ loopback_sample_rate' = rate
                   /\ probe_pc' = "open_mic"
                   /\ UNCHANGED rate_index
              ELSE /\ rate_index' = rate_index + 1
                   /\ UNCHANGED <<loopback_sample_rate, probe_pc>>
    /\ UNCHANGED <<probeFrame, mic_sample_rate, mic_requested_higher_rate,
                   rates_to_try, probe_failed, probe_result>>

\* windows_recorder.py:276-284 and 141-150: every trial failed, the probe
\* raises RuntimeError and __init__ falls back to the reported default
ProbeExhausted ==
    /\ probe_pc = "trial"
    /\ rate_index > Len(rates_to_try)
    /\ probe_failed' = TRUE
    /\ loopback_sample_rate' = loopback_device.defaultSampleRate
    /\ probe_pc' = "open_mic"
    /\ UNCHANGED <<probeFrame, mic_sample_rate, mic_requested_higher_rate,
                   rates_to_try, rate_index, trials, probe_result>>

\* windows_recorder.py:407-440: the mic stream is opened at mic_sample_rate;
\* if that fails and a higher rate than the default had been asked for, at
\* the device default; otherwise RuntimeError
OpenMic ==
    /\ probe_pc = "open_mic"
    /\ IF mic_sample_rate \in mic_device.opens
       THEN /\ probe_pc' = "open_desktop"
            /\ UNCHANGED <<mic_sample_rate, probe_result>>
       ELSE IF mic_requested_higher_rate
       THEN /\ mic_sample_rate' = mic_device.defaultSampleRate
            /\ IF mic_device.defaultSampleRate \in mic_device.opens
               THEN /\ probe_pc' = "open_desktop"
                    /\ UNCHANGED probe_result
               ELSE /\ probe_pc' = "done"
                    /\ probe_result' = "mic_open"
       ELSE /\ probe_pc' = "done"
            /\ probe_result' = "mic_open"
            /\ UNCHANGED mic_sample_rate
    /\ UNCHANGED <<probeFrame, loopback_sample_rate,
                   mic_requested_higher_rate, rates_to_try, rate_index,
                   trials, probe_failed>>

\* windows_recorder.py:442-461: the desktop stream is opened at
\* loopback_sample_rate, or RuntimeError
OpenDesktop ==
    /\ probe_pc = "open_desktop"
    /\ probe_pc' = "done"
    /\ probe_result' = IF loopback_sample_rate \in loopback_device.opens
                       THEN "started" ELSE "desktop_open"
    /\ UNCHANGED <<probeFrame, mic_sample_rate, loopback_sample_rate,
                   mic_requested_higher_rate, rates_to_try, rate_index,
                   trials, probe_failed>>

ProbeNext == InitMicRate \/ ProbeList \/ ProbeTrial \/ ProbeExhausted
                 \/ OpenMic \/ OpenDesktop

SpecProbe == ProbeInit /\ [][ProbeNext]_vars

(***************************************************************************)
(* The post-processing of a stopped recording, run on its own:             *)
(* AudioRecorder._mix_and_save (windows_recorder.py:611-758) and           *)
(* MacOSAudioRecorder._process_and_save (macos_recorder.py:453-551), one   *)
(* step per processing stage.  The buffers are arg_mic_frames (the blocks  *)
(* of the mic, each by its size: bytes on Windows, frames on macOS) and    *)
(* arg_desktop_frames; on Windows `output` is what                         *)
(* reconstruct_desktop_timeline returned for them.  The target format is   *)
(* sample_rate Hz, DEFAULT_CHANNELS channels.                              *)
(***************************************************************************)
\* What neither a stage nor a channel conversion changes.
sessionFrame == <<tlVars, preroll_seconds, mixing_mode, macVars, micBufVars,
                  deskBufVars, streamVars, cbVars, callVars, pipeVars,
                  is_recording, recording_start_time, now, main_pc, starts,
                  cb_log, mixVars, wdVars, levelVars, probeVars>>

\* What no stage changes.
procFrame == <<sessionFrame, audio_data, source_channels, stereo, downmix_pc,
               channel_data, centered, numpy_warnings, limited, channel_pc,
               swiftStopVars, reassemblyVars, swift_buffer, mmVars>>

\* The track after a stage that leaves it n long.
Stage(track, op, n) == [len |-> n, ops |-> Append(track.ops, op)]

\* windows_recorder.py:635; macos_recorder.py:466: the branch that mixes
ProcMixing ==
    /\ mix_platform = "windows" => mixing_mode
    /\ arg_desktop_frames # <<>>

\* processor.py:19-47: the length soxr.resample returns for n samples, the
\* ratio of the rates rounded down or up
ResampledLens(n, original_rate, target_rate) ==
    IF original_rate = target_rate THEN {n}
    ELSE {(n * target_rate) \div original_rate,
          (n * target_rate + original_rate - 1) \div original_rate}

\* processor.py:66-99: the length enhance_microphone returns for n samples
EnhancedLen(n) ==
    IF n = 0 THEN 0
    ELSE IF DEFAULT_CHANNELS = 2 /\ n >= 2 /\ n % 2 # 0 THEN n - 1
    ELSE n

ProcInit ==
    /\ \E mixing \in BOOLEAN : WinFields(0, mixing)
    /\ MacFields("none")
    /\ WdFields
    /\ LevelFields
    /\ ProbeParked
    /\ mix_platform \in {"windows", "macos"}
    /\ arg_audio1 = <<>>
    /\ arg_audio2 = <<>>
    /\ audio1 = <<>>
    /\ audio2 = <<>>
    /\ mixed = <<>>
    /\ mix_pc = "returned"
    /\ arg_mic_frames \in SeqsUpTo({2, 4}, MaxMicFrames)
    /\ arg_desktop_frames \in {<<>>} \cup {<<<<0, n>>>> : n \in 1..MaxFrameLen}
    /\ arg_mic_first_capture_time = None
    /\ mic_channels \in {1, 2, 4}
    /\ loopback_channels \in {1, 2, 6}
    /\ IF mix_platform = "windows"
       THEN /\ mic_sample_rate \in {16000, 48000, 96000}
            /\ loopback_sample_rate \in {48000, 96000}
            /\ output \in {IF n = 0 THEN <<>> ELSE <<Silence(n)>> :
                              n \in {0, 1, 6} \cup {2 * MaxAudioLen}}
       ELSE /\ mixing_mode
            /\ mic_sample_rate = 48000
            /\ loopback_sample_rate = 48000
            /\ output = <<>>
    /\ tl_pc = "returned"
    /\ frame_index = 1
    /\ reference_time = None
    /\ target_samples = 0
    /\ output_chunks = <<>>
    /\ current_sample_position = 0
    /\ gap_count = 0
    /\ total_gap_samples = 0
    /\ skipped_frames = 0
    /\ proc_pc = "begin"
    /\ mic_track = NoTrack
    /\ desktop_track = NoTrack
    /\ final_audio = NoTrack
    /\ proc_log = <<>>
    /\ proc_error = "none"
    /\ DownmixParked
    /\ ChannelParked
    /\ SwiftParked
    /\ MmParked

\* The stage raises.
ProcRaise(error) ==
    /\ proc_error' = error
    /\ proc_pc' = "raised"
    /\ UNCHANGED <<mic_track, desktop_track, final_audio, proc_log>>

\* windows_recorder.py:611-633; macos_recorder.py:455-463: the mic buffer
\* is checked and joined
ProcBegin ==
    /\ proc_pc = "begin"
    /\ IF arg_mic_frames = <<>>
       THEN IF mix_platform = "windows" THEN ProcRaise("no_audio")
            ELSE /\ proc_pc' = "returned"
                 /\ UNCHANGED <<mic_track, desktop_track, final_audio,
                                proc_log, proc_error>>
       ELSE /\ mic_track' =
                   [len |-> IF mix_platform = "windows"
                            THEN SumSeq(arg_mic_frames) \div 2
                            ELSE SumSeq(arg_mic_frames),
                    ops |-> <<>>]
            /\ proc_pc' = IF ProcMixing THEN "desktop"
                          ELSE IF mix_platform = "windows" THEN "mic_resample"
                          ELSE "mic_channels"
            /\ UNCHANGED <<desktop_track, final_audio, proc_log, proc_error>>
    /\ UNCHANGED procFrame

\* windows_recorder.py:635-641: the desktop timeline is reconstructed;
\* macos_recorder.py:466-469: the desktop blocks are joined
ProcDesktop ==
    /\ proc_pc = "desktop"
    /\ IF mix_platform = "windows"
       THEN /\ desktop_track' = [len |-> ChunksLen(output),
                                 ops |-> <<"timeline">>]
            /\ proc_log' = Append(proc_log, "timeline")
            /\ proc_pc' = "mic_resample"
       ELSE /\ desktop_track' = [len |-> arg_desktop_frames[1][2],
                                 ops |-> <<>>]
            /\ proc_pc' = "mic_channels"
            /\ UNCHANGED proc_log
    /\ UNCHANGED <<procFrame, mic_track, final_audio, proc_error>>

\* windows_recorder.py:643-646 and 699-702
ProcMicResample ==
    /\ proc_pc = "mic_resample"
    /\ IF mic_sample_rate # sample_rate
       THEN /\ \E n \in ResampledLens(mic_track.len, mic_sample_rate,
                                       sample_rate) :
                   mic_track' = Stage(mic_track, "resample", n)
            /\ proc_log' = Append(proc_log, "resample_mic")
       ELSE UNCHANGED <<mic_track, proc_log>>
    /\ proc_pc' = "mic_channels"
    /\ UNCHANGED <<procFrame, desktop_track, final_audio, proc_error>>

\* processor.py:140-165 as the pipeline calls it: reshape(-1, num_channels)
\* raises for a length that is no multiple of num_channels
DownmixRaises(track, num_channels) ==
    num_channels > 2 /\ track.len % num_channels # 0

\* windows_recorder.py:648-653 and 663-668: downmix_to_stereo or
\* mono_to_stereo, for a track that does not raise
ChannelsConverted(track, num_channels) ==
    IF num_channels > 2
    THEN Stage(track, "downmix", (track.len \div num_channels) * 2)
    ELSE IF num_channels = 1 /\ DEFAULT_CHANNELS = 2
    THEN Stage(track, "mono_to_stereo", track.len * 2)
    ELSE track

\* macos_recorder.py:472-478, 517-521: _downmix_to_stereo on a 2-D array,
\* which keeps the number of frames
MacChannelsConverted(track, num_channels) ==
    IF num_channels # 2 THEN Stage(track, "downmix", track.len) ELSE track

\* windows_recorder.py:648-653 and 704-709; macos_recorder.py:472-474 and
\* 514-523 (mic only: the stereo mic track times mic_volume is final_audio)
ProcMicChannels ==
    /\ proc_pc = "mic_channels"
    /\ IF mix_platform = "windows"
       THEN IF DownmixRaises(mic_track, mic_channels)
            THEN ProcRaise("reshape")
            ELSE /\ mic_track' = ChannelsConverted(mic_track, mic_channels)
                 /\ proc_log' = IF mic_channels # 2
                                THEN Append(proc_log, "channels_mic")
                                ELSE proc_log
                 /\ proc_pc' = "mic_enhance"
                 /\ UNCHANGED <<desktop_track, final_audio, proc_error>>
       ELSE /\ mic_track' = MacChannelsConverted(mic_track, mic_channels)
            /\ proc_log' = IF mic_channels # 2
                           THEN Append(proc_log, "channels_mic")
                           ELSE proc_log
            /\ IF ProcMixing
               THEN /\ proc_pc' = "desktop_channels"
                    /\ UNCHANGED final_audio
               ELSE /\ proc_pc' = "enhance_final"
                    /\ final_audio' = mic_track'
            /\ UNCHANGED <<desktop_track, proc_error>>
    /\ UNCHANGED procFrame

\* windows_recorder.py:655-657 and 711-715 (mic only: the enhanced mic track
\* is final_audio)
ProcMicEnhance ==
    /\ proc_pc = "mic_enhance"
    /\ mic_track' = Stage(mic_track, "enhance", EnhancedLen(mic_track.len))
    /\ proc_log' = Append(proc_log, "enhance_mic")
    /\ IF ProcMixing
       THEN /\ proc_pc' = "desktop_resample"
            /\ UNCHANGED final_audio
       ELSE /\ proc_pc' = "final_check"
            /\ final_audio' = mic_track'
    /\ UNCHANGED <<procFrame, desktop_track, proc_error>>

\* windows_recorder.py:659-661
ProcDesktopResample ==
    /\ proc_pc = "desktop_resample"
    /\ IF loopback_sample_rate # sample_rate
       THEN /\ \E n \in ResampledLens(desktop_track.len, loopback_sample_rate,
                                       sample_rate) :
                   desktop_track' = Stage(desktop_track, "resample", n)
            /\ proc_log' = Append(proc_log, "resample_desktop")
       ELSE UNCHANGED <<desktop_track, proc_log>>
    /\ proc_pc' = "desktop_channels"
    /\ UNCHANGED <<procFrame, mic_track, final_audio, proc_error>>

\* windows_recorder.py:663-668; macos_recorder.py:476-478
ProcDesktopChannels ==
    /\ proc_pc = "desktop_channels"
    /\ IF mix_platform = "windows" /\ DownmixRaises(desktop_track,
                                                    loopback_channels)
       THEN ProcRaise("reshape")
       ELSE /\ desktop_track' =
                   IF mix_platform = "windows"
                   THEN ChannelsConverted(desktop_track, loopback_channels)
                   ELSE MacChannelsConverted(desktop_track, loopback_channels)
            /\ proc_log' = IF loopback_channels # 2
                           THEN Append(proc_log, "channels_desktop")
                           ELSE proc_log
            /\ proc_pc' = "align"
            /\ UNCHANGED <<mic_track, final_audio, proc_error>>
    /\ UNCHANGED procFrame

\* The track padded with zeros to max_length, if it is shorter.
PaddedTrack(track, max_length) ==
    IF track.len < max_length THEN Stage(track, "pad", max_length) ELSE track

\* the lengths are aligned without the test for two empty tracks
ProcAlign_Unchecked ==
    /\ proc_pc = "align"
    /\ LET max_length == AlignLength(mic_track.len, desktop_track.len)
       IN  /\ mic_track' = PaddedTrack(mic_track, max_length)
           /\ desktop_track' = PaddedTrack(desktop_track, max_length)
           /\ proc_log' = Append(proc_log, "align")
           /\ proc_pc' = "mix"
           /\ UNCHANGED <<final_audio, proc_error>>
    /\ UNCHANGED procFrame

\* windows_recorder.py:670-688: the test for two empty tracks, then
\* align_audio_lengths; macos_recorder.py:479-497: the inline padding
ProcAlign ==
    /\ proc_pc = "align"
    /\ LET max_length == AlignLength(mic_track.len, desktop_track.len)
       IN  IF mix_platform = "windows" /\ max_length = 0
           THEN ProcRaise("alignment_failure")
           ELSE /\ mic_track' = PaddedTrack(mic_track, max_length)
                /\ desktop_track' = PaddedTrack(desktop_track, max_length)
                /\ proc_log' = Append(proc_log, "align")
                /\ proc_pc' = "mix"
                /\ UNCHANGED <<final_audio, proc_error>>
    /\ UNCHANGED procFrame

\* windows_recorder.py:690-696; macos_recorder.py:499-508, where np.max
\* raises on an empty array
ProcMix ==
    /\ proc_pc = "mix"
    /\ IF mix_platform = "macos" /\ mic_track.len = 0
       THEN ProcRaise("value_error")
       ELSE /\ final_audio' = [len |-> mic_track.len, ops |-> <<"mix">>]
            /\ proc_log' = Append(proc_log, "mix")
            /\ proc_pc' = IF mix_platform = "windows" THEN "final_check"
                          ELSE "enhance_final"
            /\ UNCHANGED <<mic_track, desktop_track, proc_error>>
    /\ UNCHANGED procFrame

\* macos_recorder.py:525-526: self._enhance_microphone(final_audio)
ProcEnhanceFinal ==
    /\ proc_pc = "enhance_final"
    /\ final_audio' = Stage(final_audio, "enhance", final_audio.len)
    /\ proc_log' = Append(proc_log, "enhance_final")
    /\ proc_pc' = "save"
    /\ UNCHANGED <<procFrame, mic_track, desktop_track, proc_error>>

\* windows_recorder.py:717-722
ProcFinalCheck ==
    /\ proc_pc = "final_check"
    /\ IF final_audio.len = 0
       THEN ProcRaise("empty_output")
       ELSE /\ proc_pc' = "save"
            /\ UNCHANGED <<mic_track, desktop_track, final_audio, proc_log,
                           proc_error>>
    /\ UNCHANGED procFrame

\* windows_recorder.py:724-758; macos_recorder.py:528-551: the file is
\* written and compressed, or a file operation raises
ProcSave ==
    /\ proc_pc = "save"
    /\ \/ /\ proc_log' = Append(proc_log, "save")
          /\ proc_pc' = "returned"
          /\ UNCHANGED <<mic_track, desktop_track, final_audio, proc_error>>
       \/ ProcRaise("io")
    /\ UNCHANGED procFrame

ProcNext ==
    \/ ProcBegin \/ ProcDesktop \/ ProcMicResample \/ ProcMicChannels
    \/ ProcMicEnhance \/ ProcDesktopResample \/ ProcDesktopChannels
    \/ ProcAlign \/ ProcMix \/ ProcEnhanceFinal \/ ProcFinalCheck \/ ProcSave

SpecPipeline == ProcInit /\ [][ProcNext]_vars

(***************************************************************************)
(* The conversion of a source to stereo as the post-processing does it:    *)
(* downmix_to_stereo and mono_to_stereo of processor.py (Windows), and     *)
(* _downmix_to_stereo of macos_recorder.py.  The array is kept as its list *)
(* of frames, a frame being one sample per channel; the result is kept in  *)
(* thousandths, so that the coefficients 0.707 and 0.5 are whole.          *)
(***************************************************************************)
CENTER_CHANNEL_ATTENUATION == 707
SURROUND_CHANNEL_ATTENUATION == 500

\* processor.py:140-165: the first two channels of each frame
\* (multichannel[:, :2]); up to two channels the array is returned as it is
downmix_to_stereo(audio, channels) ==
    IF channels <= 2 THEN [i \in 1..Len(audio) |->
                              [c \in 1..channels |-> 1000 * audio[i][c]]]
    ELSE [i \in 1..Len(audio) |-> <<1000 * audio[i][1], 1000 * audio[i][2]>>]

\* processor.py:168-179: np.repeat(audio_data, 2)
mono_to_stereo(audio) ==
    [i \in 1..Len(audio) |-> <<1000 * audio[i][1], 1000 * audio[i][1]>>]

\* macos_recorder.py:39-81
_downmix_to_stereo(audio, channels) ==
    IF channels = 1 THEN mono_to_stereo(audio)
    ELSE IF channels = 2 THEN downmix_to_stereo(audio, channels)
    ELSE [i \in 1..Len(audio) |->
             LET center == CENTER_CHANNEL_ATTENUATION * audio[i][3]
                 rest == SumSeq([c \in 1..(channels - 3) |->
                             SURROUND_CHANNEL_ATTENUATION * audio[i][c + 3]])
             IN  <<1000 * audio[i][1] + center + rest,
                   1000 * audio[i][2] + center + rest>>]

DownmixInit ==
    /\ TlParked
    /\ WinFields(0, TRUE)
    /\ MacFields("none")
    /\ WdFields
    /\ LevelFields
    /\ ProbeParked
    /\ mix_platform \in {"windows", "macos"}
    /\ arg_audio1 = <<>>
    /\ arg_audio2 = <<>>
    /\ audio1 = <<>>
    /\ audio2 = <<>>
    /\ mixed = <<>>
    /\ mix_pc = "returned"
    /\ proc_pc = "returned"
    /\ mic_track = NoTrack
    /\ desktop_track = NoTrack
    /\ final_audio = NoTrack
    /\ proc_log = <<>>
    /\ proc_error = "none"
    /\ source_channels \in {1, 2, 3, 4, 6}
    /\ audio_data \in SeqsUpTo([1..source_channels -> {0, 1000}], MaxAudioLen)
    /\ stereo = <<>>
    /\ downmix_pc = "call"
    /\ ChannelParked
    /\ SwiftParked
    /\ MmParked

\* windows_recorder.py:648-653 and 663-668: the conversion of a track with
\* source_channels channels to the DEFAULT_CHANNELS of the target
ConvertChannels ==
    /\ downmix_pc = "call"
    /\ mix_platform = "windows"
    /\ stereo' = IF source_channels > 2
                 THEN downmix_to_stereo(audio_data, source_channels)
                 ELSE IF source_channels = 1 /\ DEFAULT_CHANNELS = 2
                 THEN mono_to_stereo(audio_data)
                 ELSE downmix_to_stereo(audio_data, source_channels)
    /\ downmix_pc' = "returned"
    /\ UNCHANGED <<sessionFrame, proc_pc, mic_track, desktop_track,
                   final_audio, proc_log, proc_error, audio_data,
                   source_channels, channel_data, centered, numpy_warnings,
                   limited, channel_pc, swiftStopVars, reassemblyVars,
                   swift_buffer, mmVars>>

\* macos_recorder.py:472-478
MacConvertChannels ==
    /\ downmix_pc = "call"
    /\ mix_platform = "macos"
    /\ stereo' = IF source_channels # 2
                 THEN _downmix_to_stereo(audio_data, source_channels)
                 ELSE downmix_to_stereo(audio_data, source_channels)
    /\ downmix_pc' = "returned"
    /\ UNCHANGED <<sessionFrame, proc_pc, mic_track, desktop_track,
                   final_audio, proc_log, proc_error, audio_data,
                   source_channels, channel_data, centered, numpy_warnings,
                   limited, channel_pc, swiftStopVars, reassemblyVars,
                   swift_buffer, mmVars>>

SpecDownmix == DownmixInit /\ [][ConvertChannels \/ MacConvertChannels]_vars

(***************************************************************************)
(* _process_channel: the DC removal, the gentle normalization and the soft *)
(* limiter of one channel, in processor.py (mix_platform "windows"), in    *)
(* the legacy audio_recorder.py ("legacy") and in macos_recorder.py        *)
(* ("macos").  A sample is the exact fraction num[i] / den of full scale;  *)
(* the thresholds are in thousandths of full scale.                        *)
(***************************************************************************)
NORMALIZATION_HIGH_THRESHOLD == 700
NORMALIZATION_LOW_THRESHOLD == 100
NORMALIZATION_BOOST_TARGET == 300
SOFT_LIMIT_THRESHOLD == 950

\* np.max(np.abs(channel_data)), as a numerator over the channel's den
PeakOf(num) == MaxOfSeq([i \in 1..Len(num) |-> Abs(num[i])])

\* channel_data * (target / peak), target in thousandths
ScaledTo(channel, target) ==
    [num |-> [i \in 1..Len(channel.num) |-> target * channel.num[i]],
     den |-> 1000 * PeakOf(channel.num)]

\* the elif of the normalization: processor.py:125 and macos_recorder.py:589
\* test 0 < peak < 0.1, audio_recorder.py:815 tests peak < 0.1 alone
BoostTaken(platform, channel) ==
    /\ 1000 * PeakOf(channel.num) < NORMALIZATION_LOW_THRESHOLD * channel.den
    /\ platform # "legacy" => PeakOf(channel.num) > 0

ChannelInit ==
    /\ TlParked
    /\ WinFields(0, TRUE)
    /\ MacFields("none")
    /\ WdFields
    /\ LevelFields
    /\ ProbeParked
    /\ mix_platform \in {"windows", "legacy", "macos"}
    /\ arg_audio1 = <<>>
    /\ arg_audio2 = <<>>
    /\ audio1 = <<>>
    /\ audio2 = <<>>
    /\ mixed = <<>>
    /\ mix_pc = "returned"
    /\ proc_pc = "returned"
    /\ mic_track = NoTrack
    /\ desktop_track = NoTrack
    /\ final_audio = NoTrack
    /\ proc_log = <<>>
    /\ proc_error = "none"
    /\ DownmixParked
    /\ \E num \in SeqsUpTo({-1000, -700, 0, 50, 200, 400, 700, 1000},
                           MaxAudioLen) :
          /\ num # <<>>
          /\ channel_data = [num |-> num, den |-> 1000]
    /\ centered = NoChannel
    /\ numpy_warnings = {}
    /\ limited = FALSE
    /\ channel_pc = "dc"
    /\ SwiftParked
    /\ MmParked

\* What the processing of a channel leaves alone.
channelFrame == <<sessionFrame, proc_pc, mic_track, desktop_track,
                  final_audio, proc_log, proc_error, audio_data,
                  source_channels, stereo, downmix_pc,
                  swiftStopVars, reassemblyVars, swift_buffer, mmVars>>

\* processor.py:116: channel_data - np.mean(channel_data)
ChannelRemoveDC ==
    /\ channel_pc = "dc"
    /\ LET n == Len(channel_data.num)
           total == SumSeq(channel_data.num)
           after == [num |-> [i \in 1..n |-> n * channel_data.num[i] - total],
                     den |-> n * channel_data.den]
       IN  /\ channel_data' = after
           /\ centered' = after
    /\ channel_pc' = "normalize"
    /\ UNCHANGED <<channelFrame, numpy_warnings, limited>>

\* processor.py:118-127, audio_recorder.py:810-817, macos_recorder.py:583-591.
\* With peak 0 the legacy quotient 0.3 / peak is inf under numpy's "divide
\* by zero" warning, and 0 * inf is nan under its "invalid value" warning.
ChannelNormalize ==
    /\ channel_pc = "normalize"
    /\ LET peak == PeakOf(channel_data.num)
       IN  IF 1000 * peak > NORMALIZATION_HIGH_THRESHOLD * channel_data.den
           THEN /\ channel_data' =
                       ScaledTo(channel_data, NORMALIZATION_HIGH_THRESHOLD)
                /\ UNCHANGED numpy_warnings
           ELSE IF BoostTaken(mix_platform, channel_data)
           THEN IF peak = 0
                THEN /\ channel_data' =
                            [num |-> [i \in 1..Len(channel_data.num) |->
                                         "nan"],
                             den |-> 1]
                     /\ numpy_warnings' = numpy_warnings \cup
                            {"divide by zero", "invalid value"}
                ELSE /\ channel_data' =
                            ScaledTo(channel_data, NORMALIZATION_BOOST_TARGET)
                     /\ UNCHANGED numpy_warnings
           ELSE UNCHANGED <<channel_data, numpy_warnings>>
    /\ channel_pc' = "limit"
    /\ UNCHANGED <<channelFrame, centered, limited>>

\* processor.py:129-135: a nan compares False with the threshold; a limited
\* sample is kept as the term tanh(x * 0.9) * 0.85 of its value
ChannelLimit ==
    /\ channel_pc = "limit"
    /\ IF /\ numpy_warnings = {}
          /\ 1000 * PeakOf(channel_data.num)
                 > SOFT_LIMIT_THRESHOLD * channel_data.den
       THEN /\ channel_data' =
                   [channel_data EXCEPT !.num =
                       [i \in 1..Len(channel_data.num) |->
                           <<"tanh", channel_data.num[i]>>]]
            /\ limited' = TRUE
       ELSE UNCHANGED <<channel_data, limited>>
    /\ channel_pc' = "returned"
    /\ UNCHANGED <<channelFrame, centered, numpy_warnings>>

ChannelNext == ChannelRemoveDC \/ ChannelNormalize \/ ChannelLimit

SpecChannel == ChannelInit /\ [][ChannelNext]_vars

(***************************************************************************)
(* SwiftAudioCapture.stop_recording (swift_audio_capture.py), run by the   *)
(* thread that stops the capture, next to the reader thread                *)
(* _read_audio_data and to the helper process, which may exit at any time. *)
(* A wait or a join with a timeout returns either way.                     *)
(***************************************************************************)
MaxStopCalls == 2

\* The recorders and their post-processing.
recorderFrame == <<sessionFrame, proc_pc, mic_track, desktop_track,
                   final_audio, proc_log, proc_error, audio_data,
                   source_channels, stereo, downmix_pc, channel_data,
                   centered, numpy_warnings, limited, channel_pc>>

\* What neither stop_recording nor the reader changes.
swiftFrame == <<recorderFrame, mmVars>>

\* swift_audio_capture.py:147-219: a capture that start_recording started
SwiftStopInit ==
    /\ TlParked
    /\ WinFields(0, TRUE)
    /\ MacFields("none")
    /\ WdFields
    /\ LevelFields
    /\ ProbeParked
    /\ MixParked
    /\ proc_pc = "returned"
    /\ mic_track = NoTrack
    /\ desktop_track = NoTrack
    /\ final_audio = NoTrack
    /\ proc_log = <<>>
    /\ proc_error = "none"
    /\ DownmixParked
    /\ ChannelParked
    /\ ReassemblyParked
    /\ MmParked
    /\ swift_pc = "idle"
    /\ recording_event = TRUE
    /\ process = "Popen"
    /\ helper \in {"running", "exited"}
    /\ stdout_thread = "alive"
    /\ swift_result = "none"
    /\ signals = <<>>
    /\ swift_calls = 0
    /\ swift_buffer \in {<<>>, <<"block">>}

\* stop_recording is called
SwStopCall ==
    /\ swift_pc = "idle"
    /\ swift_calls < MaxStopCalls
    /\ swift_calls' = swift_calls + 1
    /\ swift_result' = "none"
    /\ swift_pc' = "guard"
    /\ UNCHANGED <<swiftFrame, reassemblyVars, swift_buffer, recording_event,
                   process, helper, stdout_thread, signals>>

\* swift_audio_capture.py:453-454
SwGuard ==
    /\ swift_pc = "guard"
    /\ IF ~recording_event
       THEN /\ swift_result' = "None"
            /\ swift_pc' = "idle"
       ELSE /\ swift_pc' = "send_stop"
            /\ UNCHANGED swift_result
    /\ UNCHANGED <<swiftFrame, reassemblyVars, swift_buffer, recording_event,
                   process, helper, stdout_thread, signals, swift_calls>>

\* swift_audio_capture.py:463-472: "stop" is written to the helper's stdin
\* if the helper has not exited
SwSendStop ==
    /\ swift_pc = "send_stop"
    /\ signals' = IF process = "Popen" /\ helper = "running"
                  THEN Append(signals, "stop") ELSE signals
    /\ swift_pc' = "clear_event"
    /\ UNCHANGED <<swiftFrame, reassemblyVars, swift_buffer, recording_event,
                   process, helper, stdout_thread, swift_result, swift_calls>>

\* swift_audio_capture.py:474-479: time.sleep(0.3), then the event is cleared
SwClearEvent ==
    /\ swift_pc = "clear_event"
    /\ recording_event' = FALSE
    /\ swift_pc' = "join"
    /\ UNCHANGED <<swiftFrame, reassemblyVars, swift_buffer, process, helper,
                   stdout_thread, signals, swift_result, swift_calls>>

\* swift_audio_capture.py:481-487: the joins return when the threads have
\* ended or after their timeouts
SwJoin ==
    /\ swift_pc = "join"
    /\ stdout_thread = "done" \/ stdout_thread # "done"
    /\ swift_pc' = "wait"
    /\ UNCHANGED <<swiftFrame, reassemblyVars, swift_buffer, recording_event,
                   process, helper, stdout_thread, signals, swift_result,
                   swift_calls>>

\* swift_audio_capture.py:489-495, 502-503: process.wait(timeout=2.0); when
\* it times out the helper is sent terminate()
SwWait ==
    /\ swift_pc = "wait"
    /\ IF process = "Popen" /\ helper = "running"
       THEN \/ /\ helper' = "exited"
               /\ swift_pc' = "clear_process"
               /\ UNCHANGED signals
            \/ /\ signals' = Append(signals, "terminate")
               /\ swift_pc' = "wait_terminate"
               /\ UNCHANGED helper
       ELSE /\ swift_pc' = "clear_process"
            /\ UNCHANGED <<helper, signals>>
    /\ UNCHANGED <<swiftFrame, reassemblyVars, swift_buffer, recording_event,
                   process, stdout_thread, swift_result, swift_calls>>

\* swift_audio_capture.py:496-499: process.wait(timeout=1.0); when it times
\* out the helper is sent kill()
SwWaitTerminate ==
    /\ swift_pc = "wait_terminate"
    /\ \/ /\ helper' = "exited"
          /\ swift_pc' = "clear_process"
          /\ UNCHANGED signals
       \/ /\ helper = "running"
          /\ signals' = Append(signals, "kill")
          /\ swift_pc' = "wait_kill"
          /\ UNCHANGED helper
    /\ UNCHANGED <<swiftFrame, reassemblyVars, swift_buffer, recording_event,
                   process, stdout_thread, swift_result, swift_calls>>

\* swift_audio_capture.py:500: the last process.wait(timeout=1.0) is in no
\* try: if the killed helper is not gone within the second, TimeoutExpired
\* leaves stop_recording
SwWaitKill ==
    /\ swift_pc = "wait_kill"
    /\ \/ /\ helper' = "exited"
          /\ swift_pc' = "clear_process"
          /\ UNCHANGED swift_result
       \/ /\ helper = "running"
          /\ swift_result' = "TimeoutExpired"
          /\ swift_pc' = "idle"
          /\ UNCHANGED helper
    /\ UNCHANGED <<swiftFrame, reassemblyVars, swift_buffer, recording_event,
                   process, stdout_thread, signals, swift_calls>>

\* swift_audio_capture.py:505-509
SwClearProcess ==
    /\ swift_pc = "clear_process"
    /\ process' = "None"
    /\ swift_pc' = "concatenate"
    /\ UNCHANGED <<swiftFrame, reassemblyVars, swift_buffer, recording_event,
                   helper, stdout_thread, signals, swift_result, swift_calls>>

\* swift_audio_capture.py:511-529: under the buffer lock, None for an empty
\* buffer; else the concatenation is returned and the buffer emptied, or
\* np.concatenate raises and None is returned
SwConcatenate ==
    /\ swift_pc = "concatenate"
    /\ IF swift_buffer = <<>>
       THEN /\ swift_result' = "None"
            /\ UNCHANGED swift_buffer
       ELSE \/ /\ swift_result' = "audio"
               /\ swift_buffer' = <<>>
            \/ /\ swift_result' = "None"
               /\ UNCHANGED swift_buffer
    /\ swift_pc' = "idle"
    /\ UNCHANGED <<swiftFrame, reassemblyVars, recording_event, process,
                   helper, stdout_thread, signals, swift_calls>>

\* swift_audio_capture.py:311-341: one turn of the reader's loop: a block is
\* appended under the buffer lock, or select times out, or the loop ends
SwReaderLoop ==
    /\ stdout_thread = "alive"
    /\ IF recording_event /\ process = "Popen" /\ helper = "running"
       THEN /\ Len(swift_buffer) < MaxCallbacks
            /\ swift_buffer' = Append(swift_buffer, "block")
            /\ UNCHANGED stdout_thread
       ELSE /\ stdout_thread' = "drain"
            /\ UNCHANGED swift_buffer
    /\ UNCHANGED <<swiftFrame, reassemblyVars, swift_pc, recording_event,
                   process, helper, signals, swift_result, swift_calls>>

\* swift_audio_capture.py:343-370: what is left in the pipe is read, and the
\* thread ends
SwReaderDrain ==
    /\ stdout_thread = "drain"
    /\ \/ /\ process = "Popen"
          /\ Len(swift_buffer) < MaxCallbacks
          /\ swift_buffer' = Append(swift_buffer, "block")
       \/ UNCHANGED swift_buffer
    /\ stdout_thread' = "done"
    /\ UNCHANGED <<swiftFrame, reassemblyVars, swift_pc, recording_event,
                   process, helper, signals, swift_result, swift_calls>>

\* the helper process ends on its own
SwHelperExit ==
    /\ helper = "running"
    /\ helper' = "exited"
    /\ UNCHANGED <<swiftFrame, reassemblyVars, swift_buffer, swift_pc,
                   recording_event, process, stdout_thread, signals,
                   swift_result, swift_calls>>

\* the steps of stop_recording once it is called
SwStopSteps ==
    \/ SwGuard \/ SwSendStop \/ SwClearEvent \/ SwJoin \/ SwWait
    \/ SwWaitTerminate \/ SwWaitKill \/ SwClearProcess \/ SwConcatenate

SwiftStopNext ==
    \/ SwStopCall \/ SwStopSteps
    \/ SwReaderLoop \/ SwReaderDrain \/ SwHelperExit

SpecSwiftStop == SwiftStopInit /\ [][SwiftStopNext]_vars

\* The thread that called stop_recording goes on running it: none of its
\* steps waits without a timeout.
SpecSwiftStopFair == SpecSwiftStop /\ WF_vars(SwStopSteps)

(***************************************************************************)
(* MeetingManager (meeting_manager.py).  meetings.json holds a list of     *)
(* meetings; of a meeting the model keeps the id, the date and the audio   *)
(* file.  An id "YYYYMMDD_HHMMSS" is the pair <<second, 0>>, the id        *)
(* "YYYYMMDD_HHMMSS_k" the pair <<second, k>>; a date is a time in half    *)
(* seconds.  An audio file is named after its kind and an id: meeting_<id>,*)
(* recording_<timestamp>, or something else (kind "other"); every audio    *)
(* file has its transcript next to it.                                     *)
(***************************************************************************)
MaxMeetings == 2
MaxMmClock == 2

\* the files that may be put into the recordings directory from outside
OutsideFiles ==
    {[kind |-> "meeting", id |-> <<0, 1>>],
     [kind |-> "recording", id |-> <<0, 0>>],
     [kind |-> "other", id |-> <<0, 0>>]}

\* the temporary file a recording is handed over in
TempFile == [kind |-> "temp", id |-> <<0, 0>>]

IdsOf(meetings) == {meetings[i].id : i \in 1..Len(meetings)}

\* meeting_manager.py:226-238: the first meeting of every id
RECURSIVE UniqueMeetings(_, _)
UniqueMeetings(meetings, seen_ids) ==
    IF meetings = <<>> THEN <<>>
    ELSE IF Head(meetings).id \in seen_ids
    THEN UniqueMeetings(Tail(meetings), seen_ids)
    ELSE <<Head(meetings)>>
             \o UniqueMeetings(Tail(meetings),
                               seen_ids \cup {Head(meetings).id})

\* one meeting put into a list sorted newest first, behind those of its date
RECURSIVE InsertedByDate(_, _)
InsertedByDate(sorted, meeting) ==
    IF sorted = <<>> THEN <<meeting>>
    ELSE IF Head(sorted).date >= meeting.date
    THEN <<Head(sorted)>> \o InsertedByDate(Tail(sorted), meeting)
    ELSE <<meeting>> \o sorted

\* meeting_manager.py:246: the stable sort(key=date, reverse=True)
RECURSIVE SortedNewestFirst(_)
SortedNewestFirst(meetings) ==
    IF meetings = <<>> THEN <<>>
    ELSE InsertedByDate(
             SortedNewestFirst(SubSeq(meetings, 1, Len(meetings) - 1)),
             meetings[Len(meetings)])

\* meeting_manager.py:213-249: what list_meetings returns for a file
list_meetings(file) == SortedNewestFirst(UniqueMeetings(file, {}))

\* meeting_manager.py:240-243: the file after list_meetings, which saves the
\* list without its duplicates if it found any
SavedByList(file) ==
    IF Len(UniqueMeetings(file, {})) < Len(file)
    THEN UniqueMeetings(file, {}) ELSE file

\* the id taken as it is
UniqueId_Base(base_id, existing_ids) == <<base_id, 0>>

\* meeting_manager.py:60-71: base_id, or the first base_id_<counter> that is
\* not taken (the limit of 100 attempts lies beyond MaxMeetings)
UniqueId(base_id, existing_ids) ==
    LET counter == CHOOSE k \in 0..(MaxMeetings + 1) :
                       /\ <<base_id, k>> \notin existing_ids
                       /\ \A j \in 0..(k - 1) : <<base_id, j>> \in existing_ids
    IN  <<base_id, counter>>

\* meeting_manager.py:308-333: the id scan_and_sync_recordings reads from a
\* file name: the 8+6 digits after "meeting_" (a counter behind them is not
\* read), the timestamp of a recording_ file, or the present second
ScannedId(file, clock) ==
    IF file.kind \in {"meeting", "recording"} THEN <<file.id[1], 0>>
    ELSE <<clock \div 2, 0>>

\* meeting_manager.py:149-211: _add_meeting_direct
_add_meeting_direct(file, meeting_id, audio) ==
    IF meeting_id \in IdsOf(list_meetings(file))
    THEN SavedByList(file)
    ELSE <<[id |-> meeting_id, date |-> 2 * meeting_id[1], audio |-> audio]>>
             \o list_meetings(file)

\* meeting_manager.py:272-362: the loop of scan_and_sync_recordings over the
\* audio files, with the list it read before the loop
RECURSIVE Scanned(_, _, _, _)
Scanned(audio_files, existing_meetings, file, clock) ==
    IF audio_files = <<>> THEN file
    ELSE LET audio_file == Head(audio_files)
             known == \E i \in 1..Len(existing_meetings) :
                          existing_meetings[i].audio = audio_file
             meeting_id == ScannedId(audio_file, clock)
         IN  IF known \/ meeting_id \in IdsOf(existing_meetings)
             THEN Scanned(Tail(audio_files), existing_meetings, file, clock)
             ELSE Scanned(Tail(audio_files), existing_meetings,
                          _add_meeting_direct(file, meeting_id, audio_file),
                          clock)

\* the orders glob may list a set of files in
OrdersOf(files) ==
    {order \in [1..Cardinality(files) -> files] :
        \A i, j \in DOMAIN order : i # j => order[i] # order[j]}

\* What MeetingManager leaves alone.
mmFrame == <<recorderFrame, swiftStopVars, reassemblyVars, swift_buffer>>

\* meeting_manager.py:26-35: a manager on a directory without meetings.json
MmInit ==
    /\ TlParked
    /\ WinFields(0, TRUE)
    /\ MacFields("none")
    /\ WdFields
    /\ LevelFields
    /\ ProbeParked
    /\ MixParked
    /\ proc_pc = "returned"
    /\ mic_track = NoTrack
    /\ desktop_track = NoTrack
    /\ final_audio = NoTrack
    /\ proc_log = <<>>
    /\ proc_error = "none"
    /\ DownmixParked
    /\ ChannelParked
    /\ SwiftParked
    /\ meetings_json = <<>>
    /\ recordings_dir = {}
    /\ mm_clock = 0
    /\ listed = <<>>

\* datetime.now() moves on
MmTick ==
    /\ mm_clock < MaxMmClock
    /\ mm_clock' = mm_clock + 1
    /\ UNCHANGED <<mmFrame, meetings_json, recordings_dir, listed>>

\* a file is put into the recordings directory from outside
MmFileAppears ==
    /\ Cardinality(recordings_dir) < MaxMeetings
    /\ \E file \in OutsideFiles \ recordings_dir :
          recordings_dir' = recordings_dir \cup {file}
    /\ UNCHANGED <<mmFrame, meetings_json, mm_clock, listed>>

\* meeting_manager.py:36-147: add_meeting of a temporary file or of a
\* recording_ file of the directory; the copy to meeting_<id> succeeds and
\* the source is removed, or it fails and the meeting keeps the source path
AddMeeting ==
    /\ Len(meetings_json) < MaxMeetings
    /\ \E source \in {TempFile}
                     \cup {f \in recordings_dir : f.kind = "recording"} :
       \E copied \in BOOLEAN :
          LET existing == list_meetings(meetings_json)
              meeting_id == UniqueId(mm_clock \div 2, IdsOf(existing))
              new_audio == [kind |-> "meeting", id |-> meeting_id]
              meeting == [id |-> meeting_id, date |-> mm_clock,
                          audio |-> IF copied THEN new_audio ELSE source]
          IN  /\ meetings_json' = <<meeting>> \o existing
              /\ recordings_dir' =
                     IF copied
                     THEN (recordings_dir \ {source}) \cup {new_audio}
                     ELSE recordings_dir
    /\ UNCHANGED <<mmFrame, mm_clock, listed>>

\* meeting_manager.py:251-368: scan_and_sync_recordings
ScanAndSync ==
    /\ \E audio_files \in OrdersOf(recordings_dir) :
          /\ Len(Scanned(audio_files, list_meetings(meetings_json),
                         SavedByList(meetings_json), mm_clock))
                 <= MaxMeetings
          /\ meetings_json' =
                 Scanned(audio_files, list_meetings(meetings_json),
                         SavedByList(meetings_json), mm_clock)
    /\ UNCHANGED <<mmFrame, recordings_dir, mm_clock, listed>>

\* meeting_manager.py:386-448: delete_meeting of a meeting that is listed:
\* its files are removed and the list without it is saved, or a file cannot
\* be removed and RuntimeError is raised
DeleteMeeting ==
    /\ \E meeting_id \in IdsOf(meetings_json) :
          LET meetings == list_meetings(meetings_json)
              meeting == CHOOSE m \in {meetings[i] : i \in 1..Len(meetings)} :
                             m.id = meeting_id
              kept == SelectSeq(meetings, LAMBDA m : m.id # meeting_id)
          IN  \/ /\ recordings_dir' = recordings_dir \ {meeting.audio}
                 /\ meetings_json' = kept
              \/ /\ meetings_json' = SavedByList(meetings_json)
                 /\ UNCHANGED recordings_dir
    /\ UNCHANGED <<mmFrame, mm_clock, listed>>

\* meeting_manager.py:213-249: list_meetings called by the host
ListMeetings ==
    /\ listed' = list_meetings(meetings_json)
    /\ listed' # listed
    /\ meetings_json' = SavedByList(meetings_json)
    /\ UNCHANGED <<mmFrame, recordings_dir, mm_clock>>

MmNext ==
    \/ MmTick \/ MmFileAppears \/ AddMeeting \/ ScanAndSync
    \/ DeleteMeeting \/ ListMeetings

SpecMeetings == MmInit /\ [][MmNext]_vars

(***************************************************************************)
(* The reassembly of frames in SwiftAudioCapture._read_audio_data          *)
(* (swift_audio_capture.py:222-380).  The helper writes float32 samples,   *)
(* interleaved by channel, to its stdout; the reader thread gets them in   *)
(* reads of any length.  A byte is named by its place in the stream, a     *)
(* sample is the four bytes it was made of, a frame its samples, and       *)
(* audio_buffer a list of arrays of frames.                                *)
(***************************************************************************)
MaxStreamBytes == 29

\* swift_audio_capture.py:229: bytes_per_sample, of a float32
BYTES_PER_SAMPLE == 4

\* a sequence cut into pieces of size items; Len(seq) is a multiple of size
Grouped(seq, size) ==
    [i \in 1..(Len(seq) \div size) |->
        SubSeq(seq, (i - 1) * size + 1, i * size)]

\* the pieces put together again
RECURSIVE Flattened(_)
Flattened(pieces) ==
    IF pieces = <<>> THEN <<>> ELSE Head(pieces) \o Flattened(Tail(pieces))

\* a first stage that does not keep the bytes left over
bytes_to_samples_Dropped(partial_bytes, new_data) ==
    LET data == partial_bytes \o new_data
        leftover_bytes == Len(data) % BYTES_PER_SAMPLE
        aligned == SubSeq(data, 1, Len(data) - leftover_bytes)
    IN  [none |-> aligned = <<>>,
         samples |-> Grouped(aligned, BYTES_PER_SAMPLE),
         partial_bytes |-> <<>>]

\* swift_audio_capture.py:239-263: bytes_to_samples; the bytes kept from the
\* read before come first, and the bytes behind the last whole sample are
\* kept for the next read
bytes_to_samples(partial_bytes, new_data) ==
    LET data == partial_bytes \o new_data
        leftover_bytes == Len(data) % BYTES_PER_SAMPLE
        aligned == SubSeq(data, 1, Len(data) - leftover_bytes)
    IN  [none |-> aligned = <<>>,
         samples |-> Grouped(aligned, BYTES_PER_SAMPLE),
         partial_bytes |-> SubSeq(data, Len(data) - leftover_bytes + 1,
                                  Len(data))]

\* swift_audio_capture.py:265-295: samples_to_frames; the samples kept from
\* the read before come first; mono samples are frames as they are,
\* otherwise the samples behind the last whole frame are kept
samples_to_frames(partial_samples, new_samples, channels) ==
    LET samples == partial_samples \o new_samples
        leftover_samples == Len(samples) % channels
        aligned == SubSeq(samples, 1, Len(samples) - leftover_samples)
    IN  IF samples = <<>>
        THEN [none |-> TRUE, frames |-> <<>>, partial_samples |-> <<>>]
        ELSE IF channels = 1
        THEN [none |-> FALSE, frames |-> Grouped(samples, 1),
              partial_samples |-> <<>>]
        ELSE [none |-> aligned = <<>>,
              frames |-> Grouped(aligned, channels),
              partial_samples |-> SubSeq(samples,
                                         Len(samples) - leftover_samples + 1,
                                         Len(samples))]

\* swift_audio_capture.py:297-302 and 330-337: process_audio_bytes of one
\* read, and the append of its frames to audio_buffer
ReadProcessed(n) ==
    LET new_data == SubSeq(stdout_bytes, read_pos + 1, read_pos + n)
        stage1 == bytes_to_samples(_partial_bytes, new_data)
        stage2 == samples_to_frames(_partial_samples, stage1.samples,
                                    swift_channels)
    IN  /\ read_pos' = read_pos + n
        /\ _partial_bytes' = stage1.partial_bytes
        /\ IF stage1.none
           THEN UNCHANGED <<_partial_samples, swift_buffer>>
           ELSE /\ _partial_samples' = stage2.partial_samples
                /\ swift_buffer' = IF stage2.none THEN swift_buffer
                                   ELSE Append(swift_buffer, stage2.frames)

\* What the reader thread leaves alone.
reassemblyFrame == <<recorderFrame, mmVars, swift_pc, process, helper,
                     swift_result, signals, swift_calls, stdout_bytes,
                     swift_channels>>

\* swift_audio_capture.py:81-118 and 147-219: a capture that was started,
\* with one or two channels, and the bytes its helper is going to write
ReassemblyInit ==
    /\ TlParked
    /\ WinFields(0, TRUE)
    /\ MacFields("none")
    /\ WdFields
    /\ LevelFields
    /\ ProbeParked
    /\ MixParked
    /\ proc_pc = "returned"
    /\ mic_track = NoTrack
    /\ desktop_track = NoTrack
    /\ final_audio = NoTrack
    /\ proc_log = <<>>
    /\ proc_error = "none"
    /\ DownmixParked
    /\ ChannelParked
    /\ MmParked
    /\ swift_pc = "idle"
    /\ recording_event = TRUE
    /\ process = "Popen"
    /\ helper = "running"
    /\ stdout_thread = "alive"
    /\ swift_result = "none"
    /\ signals = <<>>
    /\ swift_calls = 0
    /\ swift_buffer = <<>>
    /\ stdout_bytes = [i \in 1..MaxStreamBytes |-> i]
    /\ read_pos = 0
    /\ _partial_bytes = <<>>
    /\ _partial_samples = <<>>
    /\ swift_channels \in {1, 2}

\* swift_audio_capture.py:311-337: one turn of the loop in which os.read
\* returns some of the bytes that are in the pipe
RaRead ==
    /\ stdout_thread = "alive"
    /\ recording_event
    /\ \E n \in 1..(Len(stdout_bytes) - read_pos) : ReadProcessed(n)
    /\ UNCHANGED <<reassemblyFrame, recording_event, stdout_thread>>

\* swift_audio_capture.py:479: stop_recording clears the event
RaStop ==
    /\ recording_event
    /\ recording_event' = FALSE
    /\ UNCHANGED <<reassemblyFrame, stdout_thread, read_pos, _partial_bytes,
                   _partial_samples, swift_buffer>>

\* swift_audio_capture.py:311: the loop ends
RaLoopEnds ==
    /\ stdout_thread = "alive"
    /\ ~recording_event
    /\ stdout_thread' = "drain"
    /\ UNCHANGED <<reassemblyFrame, recording_event, read_pos, _partial_bytes,
                   _partial_samples, swift_buffer>>

\* swift_audio_capture.py:349-369: one read of the drain loop
RaDrainRead ==
    /\ stdout_thread = "drain"
    /\ \E n \in 1..(Len(stdout_bytes) - read_pos) : ReadProcessed(n)
    /\ UNCHANGED <<reassemblyFrame, recording_event, stdout_thread>>

\* swift_audio_capture.py:355-359: nothing is ready, or the pipe is at its
\* end: the drain loop ends
RaDrainEnds ==
    /\ stdout_thread = "drain"
    /\ stdout_thread' = "done"
    /\ UNCHANGED <<reassemblyFrame, recording_event, read_pos, _partial_bytes,
                   _partial_samples, swift_buffer>>

ReassemblyNext ==
    \/ RaRead \/ RaStop \/ RaLoopEnds \/ RaDrainRead \/ RaDrainEnds

SpecReassembly == ReassemblyInit /\ [][ReassemblyNext]_vars

(***************************************************************************)
(* The session state the host observes.  While start_recording runs the    *)
(* session is "Starting"; while stop_recording runs it is "Stopping";      *)
(* between calls it is "Recording" if is_recording is set, and otherwise   *)
(* what the last stop_recording left: "Mixed" if it returned, "Failed" if  *)
(* it raised, "Idle" if there was none.                                    *)
(***************************************************************************)
StartSteps == {"start_set_time", "start_open_mic", "start_open_desktop",
               "start_streams"}

\* The positions of the controlling thread inside stop_recording.
StopSteps == {"stop_close_mic", "stop_close_desktop", "mix_check",
              "mix_tracks", "mix_save", "stop_clear"}

SessionStateOf(pc, recording, result) ==
    IF pc \in StartSteps THEN "Starting"
    ELSE IF pc \in StopSteps THEN "Stopping"
    ELSE IF recording THEN "Recording"
    ELSE IF result = "stopped" THEN "Mixed"
    ELSE IF result = "stop_failed" THEN "Failed"
    ELSE "Idle"

SessionState == SessionStateOf(main_pc, is_recording, call_result)

\* A stream that PortAudio can deliver callbacks from is open.
StreamOpen == mic_stream = "open" \/ desktop_stream = "open"
              \/ orphan_streams # {}

\* The callbacks of `src` that stored their frame.
KeptBy(src) == {r \in cb_log : r.src = src /\ r.kept}

\* The controlling thread is in the post-processing pipeline.
PipelineSteps == {"mix_check", "mix_tracks", "mix_save", "mac_process_check",
                  "mac_process_concat", "mac_process_save"}

\* The errors stop_recording can raise.
StopErrors == {"stream_closed", "no_audio", "io"}

(***************************************************************************)
(* Properties.                                                             *)
(***************************************************************************)

(***************************************************************************)
(* C1.  For every non-empty list of timestamped desktop frames the buffer  *)
(* returned by reconstruct_desktop_timeline has exactly target_samples     *)
(* samples: it never exceeds the mic-derived target length.                *)
(***************************************************************************)
C1_OutputLengthIsTarget ==
    (tl_pc = "returned" /\ arg_desktop_frames # <<>>)
        => ChunksLen(output) = target_samples

(***************************************************************************)
(* C2.  recording_start_time is assigned by start_recording, before either *)
(* stream is opened: while a stream is open it has a value; it changes     *)
(* only in a step of start_recording taken while no stream is open, so it  *)
(* is not reassigned while recording and no callback sets it to its own    *)
(* first-callback time; the reference a callback uses is that value.       *)
(***************************************************************************)
C2_StartTimeSetOnceByStart ==
    /\ [](StreamOpen => recording_start_time # None)
    /\ [](\A r \in cb_log : r.start # None)
    /\ [][recording_start_time' # recording_start_time =>
             /\ main_pc \in {"idle"} \cup StartSteps
             /\ main_pc' \in StartSteps
             /\ ~StreamOpen]_vars

C4_SamePrerollInstant ==
    \A a \in cb_log, b \in cb_log :
        (a.src # b.src /\ a.start = b.start /\ a.t <= b.t /\ a.kept) => b.kept

\* A mic and a desktop callback at the same instant of the preroll, with
\* different callback counts, both dropped, and a later desktop frame kept.
C4_Witness ==
    /\ \E a \in cb_log, b \in cb_log :
          /\ a.src = "mic" /\ b.src = "desktop"
          /\ a.start = b.start /\ a.t = b.t /\ a.count # b.count
          /\ ~a.kept /\ ~b.kept
    /\ \E b \in cb_log : b.src = "desktop" /\ b.kept

(***************************************************************************)
(* C5.  The session follows Idle -> Recording -> Stopping -> {Mixed,       *)
(* Failed}: Recording is entered only by a start() that succeeded,         *)
(* Stopping only by stop() from Recording, Mixed and Failed only from      *)
(* Stopping (a finished session may be started again).                     *)
(***************************************************************************)
C5_StateMachine ==
    [][LET a == SessionState
           b == SessionStateOf(main_pc', is_recording', call_result')
       IN  a # b =>
             \/ a \in {"Idle", "Mixed", "Failed"} /\ b = "Starting"
             \/ a = "Starting" /\ b = "Recording" /\ call_result' = "started"
             \/ a = "Starting" /\ b = "Idle" /\ call_result' = "start_failed"
             \/ a = "Recording" /\ b = "Stopping"
             \/ a = "Stopping" /\ b \in {"Mixed", "Failed"}]_vars

(***************************************************************************)
(* C6.  stop() issued while the session is not recording is a no-op: the   *)
(* controlling thread does not enter the body of stop_recording, so no     *)
(* pipeline runs, nothing is raised and the result is unchanged.           *)
(***************************************************************************)
C6_StopOutsideRecordingIsNoOp ==
    [][(main_pc = "idle" /\ ~is_recording) => main_pc' \notin StopSteps]_vars

(***************************************************************************)
(* C7.  Once stop has closed the streams and the post-processing pipeline  *)
(* runs, no step changes the mic buffer or the desktop buffer: no callback *)
(* appends a frame while the pipeline reads.                               *)
(***************************************************************************)
C7_BuffersFrozenInPipeline ==
    [][(main_pc \in PipelineSteps) =>
          (mic_frames' = mic_frames /\ desktop_frames' = desktop_frames)]_vars

(***************************************************************************)
(* C8.  A capture buffer is mutated only while a lock is held: every step  *)
(* that changes the mic buffer or the desktop buffer is taken by a thread  *)
(* that holds the recorder's lock.                                         *)
(***************************************************************************)
C8_BuffersMutatedUnderLock ==
    [][(mic_frames' # mic_frames \/ desktop_frames' # desktop_frames) =>
          (lock # "free" \/ level_lock # "free")]_vars

(***************************************************************************)
(* C9.  If the mic buffer is empty when the pipeline checks it, the stop   *)
(* fails with the no-audio error and publishes nothing; and a result       *)
(* reported as success names an output that was produced.                  *)
(***************************************************************************)
C9_EmptyMicFailsStop ==
    /\ [][(main_pc \in {"mix_check", "mac_process_check"}
             /\ main_pc' # main_pc /\ mic_frames = <<>>) =>
            /\ call_result' = "stop_failed"
            /\ last_error' = "no_audio"
            /\ final_output' = final_output]_vars
    /\ []((report.printed /\ report.success) => final_output # NoOutput)

C19_LimiterBoundedMonotonic ==
    (mix_pc = "returned" /\ \E i \in DOMAIN PreLimit : Abs(PreLimit[i]) > 32768)
    => /\ \A i \in DOMAIN mixed : Abs(mixed[i]) <= 32767
       /\ \A i, j \in DOMAIN mixed :
              PreLimit[i] <= PreLimit[j] => mixed[i] <= mixed[j]
       /\ \A i \in DOMAIN mixed :
              /\ PreLimit[i] > 0 => mixed[i] >= 0
              /\ PreLimit[i] < 0 => mixed[i] <= 0
              /\ PreLimit[i] > 32768 => mixed[i] > 0
              /\ PreLimit[i] < -32768 => mixed[i] < 0

C19_Witness ==
    /\ mix_pc = "returned"
    /\ \E i, j \in DOMAIN PreLimit :
          /\ PreLimit[i] > 32768
          /\ PreLimit[j] < 0
          /\ mixed[i] > 0
          /\ mixed[j] < 0

(***************************************************************************)
(* C12.  Whatever the desktop frames and their timestamps, the length of   *)
(* the final mix differs from the mic-measured length (mic bytes / mic     *)
(* rate / mic channels, in target samples) by at most one chunk interval:  *)
(* the desktop track never sets the output length.                         *)
(***************************************************************************)
C12_FinalLengthFollowsMic ==
    (tl_pc = "returned" /\ arg_mic_frames # <<>> /\ arg_desktop_frames # <<>>)
    => /\ FinalMixedLength - MicTrackLength <= ChunkInterval
       /\ MicTrackLength - FinalMixedLength <= ChunkInterval

(***************************************************************************)
(* C13 as stated.  For frames that are contiguous except for one gap of    *)
(* duration T: if T exceeds 100 ms exactly one gap is counted, if T is     *)
(* below 100 ms none is, and in both cases the zeros inserted at the gap's *)
(* offset number T seconds of samples, give or take one.                   *)
(***************************************************************************)
C13_GapCountedByDuration ==
    \A k \in 1..MaxDesktopFrames :
       (tl_pc = "returned" /\ arg_desktop_frames # <<>> /\ OneInjectedGap(k))
       => LET T == GapTimeAfter(k)
              threshold == TicksPerSecond * SamplesPerSecond
          IN  /\ T * GapThresholdInverse > threshold => gap_count = 1
              /\ T * GapThresholdInverse < threshold => gap_count = 0

(***************************************************************************)
(* C13 as amended.  For frames that are contiguous except for one gap of   *)
(* duration T, the zeros inserted at the gap's offset number T seconds of  *)
(* samples, give or take one, and the frames keep their order around them; *)
(* exactly one gap is counted if that inserted span (a whole number of     *)
(* samples) lasts more than 100 ms, and none otherwise.                    *)
(***************************************************************************)
C13_GapCountedByInsertedSpan ==
    \A k \in 1..MaxDesktopFrames :
       (tl_pc = "returned" /\ arg_desktop_frames # <<>> /\ OneInjectedGap(k))
       => LET n == Len(arg_desktop_frames)
              G == GapSamplesAfter(k)
              samples == Concatenate(output)
              WholeFrame(i) ==
                  \A j \in 1..arg_desktop_frames[i][2] :
                     samples[FramePosition(i) + j] = <<i, j>>
          IN  /\ Len(samples) = target_samples
              /\ \A i \in 1..n : WholeFrame(i)
              /\ \A q \in (FrameEnd(k) + 1)..FramePosition(k + 1) :
                     samples[q] = <<0, 0>>
              /\ \A q \in (FrameEnd(n) + 1)..target_samples :
                     samples[q] = <<0, 0>>
              /\ G * TicksPerSecond - GapTimeAfter(k) <= TicksPerSecond
              /\ GapTimeAfter(k) - G * TicksPerSecond <= TicksPerSecond
              /\ gap_count = IF G * GapThresholdInverse > SamplesPerSecond
                             THEN 1 ELSE 0
              /\ total_gap_samples =
                     IF G * GapThresholdInverse > SamplesPerSecond
                     THEN G ELSE 0

\* three frames with a gap of a sample or two after the first: filled with
\* zeros, not counted
C13_Witness ==
    /\ tl_pc = "returned"
    /\ Len(arg_desktop_frames) = 3
    /\ OneInjectedGap(1)
    /\ gap_count = 0
    /\ Concatenate(output)[FrameEnd(1) + 1] = <<0, 0>>

(***************************************************************************)
(* C15.  Called with no desktop frame, reconstruct_desktop_timeline        *)
(* returns the empty buffer in its first step, whatever the mic frames and *)
(* the rates: it raises nothing and computes nothing before returning.     *)
(***************************************************************************)
C15_EmptyFramesReturnEmpty ==
    (arg_desktop_frames = <<>> /\ tl_pc # "call")
    => /\ tl_pc = "returned"
       /\ output = <<>>
       /\ output_chunks = <<>>
       /\ reference_time = None
       /\ target_samples = 0
       /\ gap_count = 0
       /\ skipped_frames = 0

C15_Witness ==
    /\ arg_desktop_frames = <<>>
    /\ tl_pc = "returned"
    /\ arg_mic_frames # <<>>
    /\ mic_sample_rate = 0
    /\ output = <<>>

(***************************************************************************)
(* C16.  Within one recording session (since the last start_recording) the *)
(* stall warning is printed at most once; the watchdog's stall test and    *)
(* its warning change neither is_recording nor the stream nor the buffer,  *)
(* and a callback that arrives while recording, after a warning or not,    *)
(* appends its frame.                                                      *)
(***************************************************************************)
C16_StallWarnedOnceNotStopped ==
    [][/\ warnings' <= 1
       /\ (\E i \in 1..MaxStarts : WdCheck(i) \/ WdWarned(i))
             => UNCHANGED <<is_recording, mic_stream, mic_frames>>
       /\ (WdCallback /\ is_recording)
             => mic_frames' = Append(mic_frames, "block")]_vars

(***************************************************************************)
(* C17.  A desktop stream that cannot be opened is not fatal: no call of   *)
(* start_recording fails because of it, and the session goes on with the   *)
(* mic alone.                                                              *)
(***************************************************************************)
C17_DesktopFailureNonFatal ==
    ~(call_result = "start_failed" /\ last_error = "desktop_open")

(***************************************************************************)
(* C18.  Whatever int16 samples the callback frames hold, empty frames     *)
(* included, the mic and desktop levels the recorder keeps and the levels  *)
(* it prints for the host lie between 0 and 1.                             *)
(***************************************************************************)
C18_LevelsWithinUnit ==
    /\ mic_level \in 0..32768
    /\ desktop_level \in 0..32768
    /\ \A i \in DOMAIN levels_out :
          /\ levels_out[i].mic \in 0..32768
          /\ levels_out[i].desktop \in 0..32768

C21_StallEventuallyWarned ==
    /\ (is_recording /\ main_pc = "idle" /\ warnings = 0
           /\ now - last_callback_time
                  > WATCHDOG_STALL_THRESHOLD * TicksPerSecond)
          ~> (warnings >= 1 \/ ~is_recording
                 \/ now - last_callback_time
                        <= WATCHDOG_STALL_THRESHOLD * TicksPerSecond)
    /\ [][warnings' > warnings
             => now - last_callback_time
                    > WATCHDOG_STALL_THRESHOLD * TicksPerSecond]_vars

\* C22.  A frame whose target position lies before the current output
\* position is appended from its sample number `overlap` on, right after
\* what is already in the output (its tail, cut only by the target length);
\* a frame overlapped in full is dropped and counted as skipped; the
\* chunks already in the output stay as they are; and no sample of a frame
\* occurs twice in the output.
C22_OverlapTrimmedOrDropped ==
    /\ [][(tl_pc = "loop" /\ frame_index <= Len(arg_desktop_frames)) =>
            LET timestamp == arg_desktop_frames[frame_index][1]
                frame_len == arg_desktop_frames[frame_index][2]
                overlap   == current_sample_position
                                 - TargetPosition(timestamp - reference_time,
                                       loopback_sample_rate, loopback_channels)
                room      == Max(0, target_samples - current_sample_position)
                tail      == [j \in 1..Min(frame_len - overlap, room) |->
                                 <<frame_index, overlap + j>>]
            IN  (timestamp >= reference_time /\ overlap > 0) =>
                  /\ SubSeq(output_chunks', 1, Len(output_chunks))
                         = output_chunks
                  /\ IF overlap >= frame_len
                     THEN /\ output_chunks' = output_chunks
                          /\ skipped_frames' = skipped_frames + 1
                     ELSE /\ Concatenate(output_chunks')
                                = Concatenate(output_chunks) \o tail
                          /\ skipped_frames' = skipped_frames]_vars
    /\ [](LET samples == Concatenate(output_chunks)
          IN  \A a, b \in 1..Len(samples) :
                  (a # b /\ samples[a] = samples[b]) => samples[a] = <<0, 0>>)

\* a frame was appended without its head, and another was dropped as
\* overlapped in full
C22_Witness ==
    /\ tl_pc = "returned"
    /\ \E i \in 1..Len(output) : output[i].src > 0 /\ output[i].from > 0
    /\ \E i \in 1..Len(arg_desktop_frames) :
           /\ arg_desktop_frames[i][1] >= reference_time
           /\ \A c \in 1..Len(output) : output[c].src # i
           /\ skipped_frames > 0

C24_SilenceInBoundedChunks ==
    /\ [](\A c \in 1..Len(output_chunks) :
             output_chunks[c].src = 0
                 => output_chunks[c].len
                        \in 1..(MAX_SILENCE_CHUNK_SECONDS * loopback_sample_rate
                                    * loopback_channels))
    /\ [][tl_pc = "pad" =>
            /\ SubSeq(output_chunks', 1, Len(output_chunks)) = output_chunks
            /\ \A c \in (Len(output_chunks) + 1)..Len(output_chunks') :
                   output_chunks'[c].src = 0
            /\ ChunksLen(output_chunks') - ChunksLen(output_chunks)
                   = Max(0, target_samples - current_sample_position)]_vars
    /\ [][(/\ tl_pc = "loop"
           /\ frame_index <= Len(arg_desktop_frames)
           /\ arg_desktop_frames[frame_index][1] >= reference_time) =>
            LET gap == TargetPosition(arg_desktop_frames[frame_index][1]
                                          - reference_time,
                                      loopback_sample_rate, loopback_channels)
                           - current_sample_position
                zeros == SelectSeq(SubSeq(output_chunks',
                                          Len(output_chunks) + 1,
                                          Len(output_chunks')),
                                   LAMBDA c : c.src = 0)
            IN  /\ SubSeq(output_chunks', 1, Len(output_chunks))
                       = output_chunks
                /\ ChunksLen(zeros) = Max(0, gap)]_vars

\* a gap and a final padding of more than 10 s each, split into blocks
C24_Witness ==
    /\ tl_pc = "returned"
    /\ \E i \in 1..(Len(output) - 3) :
           /\ output[i].src > 0
           /\ output[i + 1] = Silence(MaxSilenceChunk(loopback_sample_rate,
                                                      loopback_channels))
           /\ output[i + 2].src = 0
           /\ output[i + 3].src > 0
    /\ output[Len(output)].src = 0
    /\ output[Len(output) - 1].src = 0

\* C25.  Every track goes through the stages in the order timeline,
\* resampling, enhancement (mic), channel conversion (downmix or mono to
\* stereo), alignment: no stage of a track comes after a later one of that
\* list, so the mic is enhanced before it is downmixed or made stereo; and
\* mixing is the last stage: nothing is applied to the mix.
C25_StagesInOrder ==
    LET rank == [op \in {"timeline", "resample", "enhance", "downmix",
                         "mono_to_stereo", "pad"} |->
                    CASE op = "timeline" -> 1
                      [] op = "resample" -> 2
                      [] op = "enhance" -> 3
                      [] op \in {"downmix", "mono_to_stereo"} -> 4
                      [] op = "pad" -> 5]
        ordered(ops) == \A i, j \in 1..Len(ops) :
                            i < j => rank[ops[i]] <= rank[ops[j]]
    IN      /\ ordered(mic_track.ops)
            /\ ordered(desktop_track.ops)
            /\ "mix" \in {final_audio.ops[i] : i \in 1..Len(final_audio.ops)}
                   => final_audio.ops = <<"mix">>

\* C26.  The enhancer is applied to the mic track only: the desktop track
\* is never enhanced, neither before the mix nor as part of the mixed
\* signal.
C26_EnhancerOnMicOnly ==
    /\ \A i \in 1..Len(desktop_track.ops) : desktop_track.ops[i] # "enhance"
    /\ \A i \in 1..Len(final_audio.ops) :
          final_audio.ops[i] = "enhance"
              => \A j \in 1..(i - 1) : final_audio.ops[j] # "mix"

C27_DownmixCoefficients ==
    downmix_pc = "returned" =>
        /\ Len(stereo) = Len(audio_data)
        /\ \A i \in 1..Len(audio_data) :
              LET frame == audio_data[i]
                  extra == IF source_channels <= 2 THEN 0
                           ELSE 707 * frame[3]
                                + SumSeq([c \in 1..(source_channels - 3) |->
                                              500 * frame[c + 3]])
              IN  stereo[i] =
                      IF source_channels = 1
                      THEN <<1000 * frame[1], 1000 * frame[1]>>
                      ELSE <<1000 * frame[1] + extra,
                             1000 * frame[2] + extra>>

\* C29.  Once a channel is normalized, no division by zero has happened,
\* and with peak the peak of the channel after its DC removal: if peak > 0.7
\* the channel's peak is now 0.7, if 0 < peak < 0.1 it is now 0.3, and
\* otherwise (peak in [0.1, 0.7], or the silent channel of peak 0) the
\* channel is as the DC removal left it.
C29_GentleNormalization ==
    channel_pc \in {"limit", "returned"} =>
        /\ numpy_warnings = {}
        /\ IF 10 * PeakOf(centered.num) > 7 * centered.den
           THEN 10 * PeakOf(channel_data.num) = 7 * channel_data.den
           ELSE IF /\ PeakOf(centered.num) > 0
                   /\ 10 * PeakOf(centered.num) < centered.den
           THEN 10 * PeakOf(channel_data.num) = 3 * channel_data.den
           ELSE channel_data = centered

\* C30.  While reconstruct_desktop_timeline is in its loop and when it
\* leaves it, current_sample_position is the number of samples in the output
\* chunks, and no iteration lowers it; a frame that an iteration keeps starts
\* in the output at the larger of its target position and the end of the
\* output before the iteration; and the frames kept are in the output in
\* their order of arrival.
C30_PositionIsOutputLength ==
    /\ [](tl_pc \in {"loop", "pad"} =>
             /\ current_sample_position = ChunksLen(output_chunks)
             /\ \A a, b \in 1..Len(output_chunks) :
                   (a < b /\ output_chunks[a].src > 0
                          /\ output_chunks[b].src > 0)
                       => output_chunks[a].src < output_chunks[b].src)
    /\ [][tl_pc = "loop" =>
            /\ current_sample_position' >= current_sample_position
            /\ (/\ output_chunks' # output_chunks
                /\ output_chunks'[Len(output_chunks')].src = frame_index) =>
                  ChunksLen(SubSeq(output_chunks', 1,
                                   Len(output_chunks') - 1))
                      = Max(TargetPosition(
                                arg_desktop_frames[frame_index][1]
                                    - reference_time,
                                loopback_sample_rate, loopback_channels),
                            ChunksLen(output_chunks))]_vars

\* the loop has kept one frame behind a gap of silence and a later one cut
\* at its head
C30_Witness ==
    /\ tl_pc = "pad"
    /\ current_sample_position > 0
    /\ \E a, b \in 1..Len(output_chunks) :
          /\ a + 1 < b
          /\ output_chunks[a].src = 0
          /\ output_chunks[a + 1].src > 0
          /\ output_chunks[b].src > output_chunks[a + 1].src
          /\ output_chunks[b].from > 0

\* C31.  When start_recording has raised (the mic stream or the desktop
\* stream could not be opened, or a stream did not start), the recorder is
\* not recording and none of its capture streams is open.  (The watchdog
\* thread is created after the last raise of start_recording, so a raising
\* call starts none.)
C31_FailedStartLeavesNothingRunning ==
    (main_pc = "idle" /\ call_result = "start_failed") =>
        /\ ~is_recording
        /\ mic_stream # "open"
        /\ desktop_stream # "open"
        /\ orphan_streams = {}

\* C32.  A start_recording called while a recording is active (the flag is
\* set and the mic stream is open when the call begins) changes nothing: no
\* step of the call discards a captured frame, moves recording_start_time
\* or opens a further stream.
C32_StartWhileActiveIsNoOp ==
    [][(/\ is_recording
        /\ mic_stream = "open"
        /\ \/ main_pc = "idle" /\ main_pc' = "start_set_time"
           \/ main_pc = "start_set_time" /\ main_pc' # main_pc
           \/ main_pc = "start_open_mic" /\ main_pc' # main_pc) =>
           /\ mic_frames' = mic_frames
           /\ desktop_frames' = desktop_frames
           /\ recording_start_time' = recording_start_time
           /\ mic_stream' = mic_stream
           /\ desktop_stream' = desktop_stream
           /\ orphan_streams' = orphan_streams]_vars

\* C33.  Once the stop_recording that matches a start_recording has
\* returned, the watchdog thread of that start_recording emits no warning
\* any more: a stall is found and warned only by the watchdog thread of the
\* session that is running, so that no two threads watch one session.
C33_StoppedWatchdogIsSilent ==
    [][\A i \in 1..MaxStarts :
          (wd_pc[i] = "check" /\ wd_pc'[i] = "warn") =>
              (i = starts /\ is_recording)]_vars

\* C34.  When the mic thread has failed during a recording (it has set the
\* error event and cleared the running flag) and the stop_recording that
\* follows has returned, the desktop capture is stopped, the mic frames
\* captured so far are processed into an output, and main does not print a
\* result of success for a run that wrote no output.
C34_MicFailureStillStopsAndProcesses ==
    (error_event /\ main_pc \in {"mac_done", "exited"}
                 /\ call_result \in {"stopped", "stop_ignored"}) =>
        /\ desktop_capture # "capturing"
        /\ mic_frames # <<>> => final_output # NoOutput
        /\ ~(report.printed /\ report.success /\ final_output = NoOutput)

\* C35.  Every call of SwiftAudioCapture.stop_recording comes to an end.
\* It sends the helper nothing but stop, then terminate, then kill, each
\* only after the one before; when it has returned, the recording event is
\* clear and the process reference is None; and a call that finds the event
\* clear returns None and leaves the buffer as it is.
C35_SwiftStopTerminates ==
    /\ [](swift_pc # "idle" => <>(swift_pc = "idle"))
    /\ [](signals \in {<<>>, <<"stop">>, <<"stop", "terminate">>,
                       <<"stop", "terminate", "kill">>, <<"terminate">>,
                       <<"terminate", "kill">>})
    /\ []((swift_pc = "idle" /\ swift_result \in {"audio", "None"}) =>
              (~recording_event /\ process = "None"))
    /\ [][(swift_pc = "guard" /\ ~recording_event /\ swift_pc' # "guard") =>
              /\ swift_pc' = "idle"
              /\ swift_result' = "None"
              /\ swift_buffer' = swift_buffer]_vars

\* C36.  The value mix_audio converts to int16 never leaves the range of
\* int16, so the conversion does not wrap: whatever int16 samples the two
\* tracks of equal length hold (the volumes at 1.0, the mic boost 2.0),
\* every sample returned lies in -32767..32767; the sums are passed through
\* the limiter whenever one of them exceeds 1.0 in magnitude, and are only
\* scaled when none does.
C36_MixNeverWraps ==
    mix_pc = "returned" =>
        /\ \A i \in DOMAIN mixed : mixed[i] \in -32767..32767
        /\ Len(mixed) = Len(PreLimit)
        /\ IF \E i \in DOMAIN PreLimit : Abs(PreLimit[i]) > 32768
           THEN \A i \in DOMAIN mixed : mixed[i] = Tanh085[PreLimit[i]]
           ELSE \A i \in DOMAIN mixed :
                    mixed[i] = TruncDiv(PreLimit[i] * 32767, 32768)

\* the loudest mic sample over the loudest desktop sample went through the
\* limiter, next to a sample that alone would not have needed it
C36_Witness ==
    /\ mix_pc = "returned"
    /\ \E i, j \in DOMAIN mixed :
          /\ PreLimit[i] = 98301
          /\ mixed[i] = 32369
          /\ Abs(PreLimit[j]) <= 32768
          /\ mixed[j] = Tanh085[PreLimit[j]]

\* C37.  Whatever add_meeting, scan_and_sync_recordings and delete_meeting
\* calls were made on a MeetingManager, list_meetings returns no two
\* meetings with the same id; and it has no duplicate to remove, because the
\* list these calls leave in meetings.json holds none.
C37_ListedIdsDistinct ==
    /\ \A i, j \in 1..Len(listed) :
          listed[i].id = listed[j].id => i = j
    /\ \A i, j \in 1..Len(list_meetings(meetings_json)) :
          list_meetings(meetings_json)[i].id
              = list_meetings(meetings_json)[j].id => i = j
    /\ \A i, j \in 1..Len(meetings_json) :
          meetings_json[i].id = meetings_json[j].id => i = j

\* two meetings of the same second are listed: one that a scan took from a
\* recording_ file and one that add_meeting gave the counter 1
C37_Witness ==
    \E i, j \in 1..Len(listed) :
        /\ listed[i].id = <<0, 0>>
        /\ listed[i].audio.kind = "recording"
        /\ listed[j].id = <<0, 1>>
        /\ listed[j].audio.kind = "meeting"

\* C38.  However the helper's stdout is split into reads, the frames
\* appended to audio_buffer, put together in order, are the longest prefix of
\* whole frames (4 x channels bytes each) of the bytes read; fewer than 4
\* bytes and fewer than `channels` samples are held back; and the bytes read
\* are the bytes of the buffer, of the samples held back and the bytes held
\* back, in this order: none is lost, doubled or moved.
C38_ReassemblyIndependentOfChunking ==
    LET frame_bytes == BYTES_PER_SAMPLE * swift_channels
        whole == (read_pos \div frame_bytes) * frame_bytes
        buffered == Flattened(Flattened(Flattened(swift_buffer)))
    IN  /\ buffered = SubSeq(stdout_bytes, 1, whole)
        /\ Len(_partial_bytes) < BYTES_PER_SAMPLE
        /\ Len(_partial_samples) < swift_channels
        /\ buffered \o Flattened(_partial_samples) \o _partial_bytes
               = SubSeq(stdout_bytes, 1, read_pos)
        /\ \A a \in 1..Len(swift_buffer) :
              /\ swift_buffer[a] # <<>>
              /\ \A f \in 1..Len(swift_buffer[a]) :
                    /\ Len(swift_buffer[a][f]) = swift_channels
                    /\ \A c \in 1..swift_channels :
                          Len(swift_buffer[a][f][c]) = BYTES_PER_SAMPLE

\* stereo frames of several reads are in the buffer, and a sample and a byte
\* are held back
C38_Witness ==
    /\ swift_channels = 2
    /\ Len(swift_buffer) >= 2
    /\ _partial_samples # <<>>
    /\ _partial_bytes # <<>>

====
